---- MODULE Spec2Model ----
(***************************************************************************)
(* State-machine model of the job execution engine of AutoposterBot        *)
(* (src/bot.py): the job store, the in-memory registry of running jobs,    *)
(* the run_job coroutines and the start / stop / reset / delete handlers.  *)
(*                                                                         *)
(* Granularity.  The program is a set of asyncio coroutines on one event   *)
(* loop: code between two awaits runs atomically.  An await of a store or  *)
(* transport call has its effect at some moment between the call and the   *)
(* coroutine's resumption.  One model step of a coroutine is therefore     *)
(* "the synchronous code since the last resumption, then the effect of     *)
(* the next awaited call".  Code that follows an await and touches only    *)
(* locals is folded into the step of that await; code that touches the     *)
(* registry (active_jobs, job_locks) starts the next step.  Sleeps have    *)
(* no effect of their own and are recorded in the event variable ev.       *)
(***************************************************************************)
EXTENDS Integers, Sequences, FiniteSets, TLC

(* ------------------------------ bounds -------------------------------- *)
\* highest source message id the transport is asked for
MaxId == 10
\* run_job tasks created per process lifetime
MaxTasks == 2
\* handler calls in flight at the same time
MaxCalls == 2
\* clone-and-send calls that succeed (target message ids handed out)
MaxSends == 2
\* clock ticks (minutes)
MaxTime == 2
\* process crashes
MaxCrashes == 1

(* ------------------------- program constants -------------------------- *)
\* end_post_id value meaning "all future posts"
UNBOUNDED == 999999
\* window size: min(batch_size * FETCH_FACTOR, FETCH_CAP)
FETCH_FACTOR == 5
FETCH_CAP == 100

\* the values of a FloodWait (e.value, seconds)
WaitSeconds == {5, 30}

Jobs == {"j1", "j2"}
Tasks == 1..MaxTasks
Calls == 1..MaxCalls
Ids == 1..MaxId

Min(a, b) == IF a <= b THEN a ELSE b
Max(a, b) == IF a >= b THEN a ELSE b

(* ------------------------- the source channel ------------------------- *)
\* What get_messages returns for one id: a Message with its empty, media and
\* text attributes.  The channel content is fixed: photo, gap, plain text,
\* service message, text with a web-page preview, and so on cyclically.
SourceMessage(id) ==
    CASE id % 5 = 1 -> [id |-> id, empty |-> FALSE, media |-> TRUE,  text |-> FALSE]
      [] id % 5 = 2 -> [id |-> id, empty |-> TRUE,  media |-> FALSE, text |-> FALSE]
      [] id % 5 = 3 -> [id |-> id, empty |-> FALSE, media |-> FALSE, text |-> TRUE]
      [] id % 5 = 4 -> [id |-> id, empty |-> FALSE, media |-> FALSE, text |-> FALSE]
      [] OTHER      -> [id |-> id, empty |-> FALSE, media |-> TRUE,  text |-> TRUE]

\* mutant of message_matches_filter: "text" accepts every message with text
matches_any_text(msg, filter_type) ==
    CASE filter_type = "all"   -> TRUE
      [] filter_type = "media" -> msg.media
      [] filter_type = "text"  -> msg.text
      [] OTHER                 -> FALSE

message_matches_filter(msg, filter_type) ==
    CASE filter_type = "all"   -> TRUE
      [] filter_type = "media" -> msg.media
      [] filter_type = "text"  -> msg.text /\ ~msg.media
      [] OTHER                 -> FALSE

(* ------------------------------ variables ----------------------------- *)
VARIABLES
    cfg,                 \* per job: the fields of the job document no operation here
                         \* changes, the last post of its source channel, and whether
                         \* the wizard was given a link as the end of the range
    jobs,                \* per job: the stored document (exists, is_active,
                         \* last_forwarded_id, updated_at)
    forwarded_messages,  \* the forwarded_messages collection
    target,              \* ids of the messages present in the target channels
    nextDest,            \* next message id the target hands out
    now,                 \* clock, in minutes
    active_jobs,         \* self.active_jobs: job id -> "True" / "False", "absent" for no key
    job_locks,           \* self.job_locks: job id -> lock object, 0 for no key
    job_tasks,           \* self.job_tasks: job id -> task, 0 for no key
    lockHolder,          \* per lock object: the task holding it, 0 when free
    nextTask,            \* next task / lock identity
    runner,              \* per task: the run_job coroutine's position and locals
    calls,               \* handler calls in flight
    boot,                \* "starting" between app.start() and the resume loop, "stopped"
                         \* once AutoposterBot.stop has run, else "running"
    crashes,             \* crashes so far
    ev,                  \* the event of the last step
    fetched,             \* history: per job, ids some successful get_messages returned
    handed,              \* history: per job, ids whose clone into the target was attempted
    was_reset            \* history: per job, a reset has written the cursor

storeVars == <<jobs, forwarded_messages>>
transportVars == <<target, nextDest>>
registryVars == <<active_jobs, job_locks, job_tasks, lockHolder, nextTask>>
histVars == <<fetched, handed, was_reset>>
vars == <<cfg, jobs, forwarded_messages, target, nextDest, now, active_jobs, job_locks,
          job_tasks, lockHolder, nextTask, runner, calls, boot, crashes, ev,
          fetched, handed, was_reset>>

(* ------------------------------ records ------------------------------- *)
NoRunner ==
    [job |-> "none", via |-> "none", pc |-> "none", found |-> FALSE, is_active |-> FALSE,
     last_forwarded_id |-> 0, current_message_id |-> 0, messages_to_forward |-> <<>>,
     last_checked_message_id |-> 0, idx |-> 0, forwarded_count |-> 0, lock |-> 0,
     old_messages |-> {}]

NoCall == [kind |-> "none", job |-> "none", pc |-> "none", found |-> FALSE, is_active |-> FALSE]

NoJob == [exists |-> FALSE, is_active |-> FALSE, last_forwarded_id |-> 0, updated_at |-> 0]

\* the event of a step; t is the time the step's coroutine then sleeps because of
\* a FloodWait, in seconds
Event(kind, job, task, a, b) ==
    [kind |-> kind, job |-> job, task |-> task, a |-> a, b |-> b, t |-> 0]
Slept(e, t) == [e EXCEPT !.t = t]
Quiet == Event("none", "none", 0, 0, 0)

\* Database.create_job: a new job is inactive with last_forwarded_id 0
NewJob == [exists |-> TRUE, is_active |-> FALSE, last_forwarded_id |-> 0, updated_at |-> 0]

\* the job documents the wizard can have stored (handle_end_post .. handle_delete_time),
\* on a source channel whose posts reach MaxId
JobConfig(s, e, b, f, d) ==
    [start_post_id |-> s, end_post_id |-> e, batch_size |-> b, filter_type |-> f,
     delete_time |-> d, recurring_time |-> 1, last_post |-> MaxId,
     end_is_link |-> e # UNBOUNDED]

\* handle_end_post: the answer "latest", "all" or "999999" is stored as 999999,
\* and so is the id of a link to the message 999999 (extract_message_id_from_link).
\* The job c whose end_post_id came from such a link:
WithEndLink(c) == [c EXCEPT !.end_is_link = TRUE]

\* the same job on a source channel whose last post is n
OnChannel(c, n) == [c EXCEPT !.last_post = n]

\* the process has started with every job stored inactive and no progress made
InitWith(configs) ==
    /\ cfg \in configs
    /\ jobs = [j \in Jobs |-> NewJob]
    /\ forwarded_messages = {}
    /\ target = {}
    /\ nextDest = 1
    /\ now = 0
    /\ active_jobs = [j \in Jobs |-> "absent"]
    /\ job_locks = [j \in Jobs |-> 0]
    /\ job_tasks = [j \in Jobs |-> 0]
    /\ lockHolder = [t \in Tasks |-> 0]
    /\ nextTask = 1
    /\ runner = [t \in Tasks |-> NoRunner]
    /\ calls = [c \in Calls |-> NoCall]
    /\ boot = "running"
    /\ crashes = 0
    /\ ev = Quiet
    /\ fetched = [j \in Jobs |-> {}]
    /\ handed = [j \in Jobs |-> {}]
    /\ was_reset = [j \in Jobs |-> FALSE]

(* ------------------------------ the store ----------------------------- *)
\* Database.get_job: the document, or None when it is missing
get_job(j) ==
    IF jobs[j].exists
    THEN [found |-> TRUE, is_active |-> jobs[j].is_active,
          last_forwarded_id |-> jobs[j].last_forwarded_id]
    ELSE [found |-> FALSE, is_active |-> FALSE, last_forwarded_id |-> 0]

\* Database.get_job when find_one raises: the exception is logged, None is returned
get_job_failed == [found |-> FALSE, is_active |-> FALSE, last_forwarded_id |-> 0]

\* Database.update_job_status: update_one of is_active and updated_at, a no-op on
\* a missing document
update_job_status(j, is_active) ==
    IF jobs[j].exists
    THEN [jobs EXCEPT ![j].is_active = is_active, ![j].updated_at = now]
    ELSE jobs

\* Database.update_last_forwarded
update_last_forwarded(j, message_id) ==
    IF jobs[j].exists
    THEN [jobs EXCEPT ![j].last_forwarded_id = message_id, ![j].updated_at = now]
    ELSE jobs

\* Database.add_forwarded_message
add_forwarded_message(j, original_id, forwarded_id) ==
    forwarded_messages \cup
        {[job_id |-> j, original_message_id |-> original_id,
          forwarded_message_id |-> forwarded_id, forwarded_at |-> now]}

\* mutant of OldForwarded: the find and the delete_many have no job_id filter
OldForwardedAnyJob(j, minutes_ago) ==
    IF minutes_ago <= 0 THEN {}
    ELSE {d \in forwarded_messages : d.forwarded_at < now - minutes_ago}

\* mutant of OldForwarded: the find and the delete_many have no forwarded_at filter
OldForwardedAnyAge(j, minutes_ago) ==
    IF minutes_ago <= 0 THEN {}
    ELSE {d \in forwarded_messages : d.job_id = j}

\* Database.get_old_forwarded_messages: the documents matched by the find and
\* removed by the delete_many (job_id = j, forwarded_at < now - minutes_ago)
OldForwarded(j, minutes_ago) ==
    IF minutes_ago <= 0 THEN {}
    ELSE {d \in forwarded_messages : d.job_id = j /\ d.forwarded_at < now - minutes_ago}

\* mutant of reset_cursor: last_forwarded_id := start_post_id
reset_cursor_at_start(j, start_post_id) ==
    IF jobs[j].exists
    THEN [jobs EXCEPT ![j].last_forwarded_id = start_post_id, ![j].updated_at = now]
    ELSE jobs

\* Database.reset_job_progress, first await: last_forwarded_id := start_post_id - 1
reset_cursor(j, start_post_id) ==
    IF jobs[j].exists
    THEN [jobs EXCEPT ![j].last_forwarded_id = start_post_id - 1, ![j].updated_at = now]
    ELSE jobs

\* delete_many({'job_id': j}) of reset_job_progress and delete_job
delete_forwarded(j) == {d \in forwarded_messages : d.job_id # j}

(* ------------------------------ the scan ------------------------------ *)
\* app.get_messages(source_channel_id, message_ids), for one id: the post, or an
\* empty Message carrying the id when the channel has no post with that id yet
get_messages(c, id) ==
    IF id <= c.last_post
    THEN SourceMessage(id)
    ELSE [id |-> id, empty |-> TRUE, media |-> FALSE, text |-> FALSE]

\* fetch_limit of process_job_batch
fetch_limit(batch_size) == Min(batch_size * FETCH_FACTOR, FETCH_CAP)

\* mutant of window_end: the window is not cut at the end bound
window_end_unclipped(c, current_message_id) ==
    current_message_id + fetch_limit(c.batch_size)

\* end_id of process_job_batch: one past the last id of the window
window_end(c, current_message_id) ==
    IF c.end_post_id # UNBOUNDED
    THEN Min(current_message_id + fetch_limit(c.batch_size), c.end_post_id + 1)
    ELSE current_message_id + fetch_limit(c.batch_size)

\* the head of the while loop of process_job_batch: TRUE when a window is requested
scan_continues(c, current_message_id, messages_to_forward) ==
    /\ Len(messages_to_forward) < c.batch_size
    /\ ~(c.end_post_id # UNBOUNDED /\ current_message_id > c.end_post_id)
    /\ window_end(c, current_message_id) > current_message_id

\* the for loop over the messages get_messages returned for ids id..hi
RECURSIVE scan_messages(_, _, _, _, _)
scan_messages(c, id, hi, acc, last) ==
    IF id > hi THEN [messages_to_forward |-> acc, last_checked_message_id |-> last]
    ELSE LET msg == get_messages(c, id) IN
         IF msg.empty THEN scan_messages(c, id + 1, hi, acc, msg.id)
         ELSE IF message_matches_filter(msg, c.filter_type)
              THEN IF Len(acc) + 1 >= c.batch_size
                   THEN [messages_to_forward |-> Append(acc, msg.id),
                         last_checked_message_id |-> msg.id]
                   ELSE scan_messages(c, id + 1, hi, Append(acc, msg.id), msg.id)
              ELSE scan_messages(c, id + 1, hi, acc, msg.id)

\* mutant of cycle_sleep: always one interval
cycle_sleep_interval(c, last_forwarded_id) == c.recurring_time * 60

\* the sleep that ends a cycle of run_job, in seconds
cycle_sleep(c, last_forwarded_id) ==
    IF c.end_post_id # UNBOUNDED /\ last_forwarded_id >= c.end_post_id
    THEN c.recurring_time * 60 * 2
    ELSE c.recurring_time * 60

(* ------------------------------- run_job ------------------------------ *)
Set(r, rec) == [runner EXCEPT ![r] = rec]

\* a task that has returned; a task that starts its next iteration
Finished(r) == [NoRunner EXCEPT !.job = runner[r].job, !.via = runner[r].via, !.pc = "done"]
AtTop(r) == [NoRunner EXCEPT !.job = runner[r].job, !.via = runner[r].via, !.pc = "top"]

\* the while condition of run_job
enabled_flag(j) == active_jobs[j] = "True"

\* the highest id a window of job c may reach here: MaxId, counted from the
\* start of the range when the range starts above MaxId
ScanLimit(c) == IF c.start_post_id > MaxId THEN c.start_post_id + MaxId ELSE MaxId

\* the next window of a scanning task
Window(r) ==
    LET c == cfg[runner[r].job] IN
    [lo |-> runner[r].current_message_id,
     hi |-> window_end(c, runner[r].current_message_id) - 1]

\* Top of the while loop.  Flag off or key missing: the loop ends and the task
\* deletes the job's registry entries.  Otherwise the task takes the lock now
\* in job_locks (or queues on it) and, holding it, reads the job document.
RunTop(r, doc) ==
    LET j == runner[r].job IN
    /\ runner[r].pc = "top"
    /\ IF ~enabled_flag(j)
       THEN /\ active_jobs' = [active_jobs EXCEPT ![j] = "absent"]
            /\ job_locks' = [job_locks EXCEPT ![j] = 0]
            /\ runner' = Set(r, Finished(r))
            /\ ev' = Event("exit", j, r, 0, 0)
            /\ UNCHANGED lockHolder
       ELSE LET L == job_locks[j] IN
            IF lockHolder[L] = 0
            THEN /\ lockHolder' = [lockHolder EXCEPT ![L] = r]
                 /\ runner' = Set(r, [runner[r] EXCEPT
                        !.pc = "got_job", !.lock = L, !.found = doc.found,
                        !.is_active = doc.is_active,
                        !.last_forwarded_id = doc.last_forwarded_id])
                 /\ ev' = Event("get_job", j, r, 0, 0)
                 /\ UNCHANGED <<active_jobs, job_locks>>
            ELSE /\ runner' = Set(r, [runner[r] EXCEPT !.pc = "wait_lock", !.lock = L])
                 /\ ev' = Quiet
                 /\ UNCHANGED <<active_jobs, job_locks, lockHolder>>
    /\ UNCHANGED <<cfg, storeVars, transportVars, now, job_tasks, nextTask, calls, boot,
                   crashes, histVars>>

\* A task queued on a lock gets it once it is free and reads the job document.
RunAcquire(r, doc) ==
    LET j == runner[r].job
        L == runner[r].lock IN
    /\ runner[r].pc = "wait_lock"
    /\ lockHolder[L] = 0
    /\ lockHolder' = [lockHolder EXCEPT ![L] = r]
    /\ runner' = Set(r, [runner[r] EXCEPT
           !.pc = "got_job", !.found = doc.found, !.is_active = doc.is_active,
           !.last_forwarded_id = doc.last_forwarded_id])
    /\ ev' = Event("get_job", j, r, 0, 0)
    /\ UNCHANGED <<cfg, storeVars, transportVars, now, active_jobs, job_locks, job_tasks,
                   nextTask, calls, boot, crashes, histVars>>

\* mutant of RunBreak: the task deletes the lock entry and leaves the flag entry
RunBreakKeepsFlag(r) ==
    LET j == runner[r].job IN
    /\ runner[r].pc = "got_job"
    /\ ~runner[r].found \/ ~runner[r].is_active
    /\ lockHolder' = [lockHolder EXCEPT ![runner[r].lock] = 0]
    /\ job_locks' = [job_locks EXCEPT ![j] = 0]
    /\ runner' = Set(r, Finished(r))
    /\ ev' = Event("exit", j, r, IF runner[r].found THEN 0 ELSE 1, 0)
    /\ UNCHANGED <<cfg, storeVars, transportVars, now, active_jobs, job_tasks, nextTask,
                   calls, boot, crashes, histVars>>

\* mutant of RunBreak: the task returns without deleting the registry entries
RunBreakKeepsEntries(r) ==
    LET j == runner[r].job IN
    /\ runner[r].pc = "got_job"
    /\ ~runner[r].found \/ ~runner[r].is_active
    /\ lockHolder' = [lockHolder EXCEPT ![runner[r].lock] = 0]
    /\ runner' = Set(r, Finished(r))
    /\ ev' = Event("exit", j, r, IF runner[r].found THEN 0 ELSE 1, 0)
    /\ UNCHANGED <<cfg, storeVars, transportVars, now, active_jobs, job_locks, job_tasks,
                   nextTask, calls, boot, crashes, histVars>>

\* `if not job or not job['is_active']: break`: the lock is released, the loop
\* ends and the task deletes the job's registry entries (event: a = 1 when the
\* document was missing).
RunBreak(r) ==
    LET j == runner[r].job IN
    /\ runner[r].pc = "got_job"
    /\ ~runner[r].found \/ ~runner[r].is_active
    /\ lockHolder' = [lockHolder EXCEPT ![runner[r].lock] = 0]
    /\ active_jobs' = [active_jobs EXCEPT ![j] = "absent"]
    /\ job_locks' = [job_locks EXCEPT ![j] = 0]
    /\ runner' = Set(r, Finished(r))
    /\ ev' = Event("exit", j, r, IF runner[r].found THEN 0 ELSE 1, 0)
    /\ UNCHANGED <<cfg, storeVars, transportVars, now, job_tasks, nextTask, calls, boot,
                   crashes, histVars>>

\* mutant of FetchOk: an unbounded job that is short of its batch scans on
FetchOkWidens(r) ==
    LET j == runner[r].job
        c == cfg[j]
        w == Window(r)
        res == scan_messages(c, w.lo, w.hi, runner[r].messages_to_forward,
                             runner[r].last_checked_message_id)
    IN
    /\ runner[r].pc = "scan"
    /\ scan_continues(c, runner[r].current_message_id, runner[r].messages_to_forward)
    /\ w.hi <= ScanLimit(cfg[j])
    /\ runner' = Set(r, [runner[r] EXCEPT
           !.messages_to_forward = res.messages_to_forward,
           !.last_checked_message_id = res.last_checked_message_id,
           !.current_message_id = res.last_checked_message_id + 1])
    /\ fetched' = [fetched EXCEPT ![j] = @ \cup (w.lo..w.hi)]
    /\ ev' = Event("fetch", j, r, w.lo, w.hi)
    /\ UNCHANGED <<cfg, storeVars, transportVars, now, registryVars, calls, boot, crashes,
                   handed, was_reset>>

\* mutant of RunBegin: the scan begins at start_post_id whatever the cursor
RunBeginAtStart(r) ==
    LET j == runner[r].job IN
    /\ runner[r].pc = "got_job"
    /\ runner[r].found /\ runner[r].is_active
    /\ runner' = Set(r, [runner[r] EXCEPT
           !.pc = "scan",
           !.current_message_id = cfg[j].start_post_id,
           !.messages_to_forward = <<>>,
           !.last_checked_message_id = runner[r].last_forwarded_id])
    /\ ev' = Event("begin", j, r, cfg[j].start_post_id, 0)
    /\ UNCHANGED <<cfg, storeVars, transportVars, now, registryVars, calls, boot, crashes,
                   histVars>>

\* mutant of RunBegin: a missing job document does not end the loop
RunBeginUnchecked(r) ==
    LET j == runner[r].job IN
    /\ runner[r].pc = "got_job"
    /\ ~runner[r].found \/ runner[r].is_active
    /\ runner' = Set(r, [runner[r] EXCEPT
           !.pc = "scan",
           !.current_message_id = Max(runner[r].last_forwarded_id + 1, cfg[j].start_post_id),
           !.messages_to_forward = <<>>,
           !.last_checked_message_id = runner[r].last_forwarded_id])
    /\ ev' = Event("begin", j, r,
                   Max(runner[r].last_forwarded_id + 1, cfg[j].start_post_id), 0)
    /\ UNCHANGED <<cfg, storeVars, transportVars, now, registryVars, calls, boot, crashes,
                   histVars>>

\* process_job_batch up to its while loop
RunBegin(r) ==
    LET j == runner[r].job IN
    /\ runner[r].pc = "got_job"
    /\ runner[r].found /\ runner[r].is_active
    /\ runner' = Set(r, [runner[r] EXCEPT
           !.pc = "scan",
           !.current_message_id = Max(runner[r].last_forwarded_id + 1, cfg[j].start_post_id),
           !.messages_to_forward = <<>>,
           !.last_checked_message_id = runner[r].last_forwarded_id])
    /\ ev' = Event("begin", j, r,
                   Max(runner[r].last_forwarded_id + 1, cfg[j].start_post_id), 0)
    /\ UNCHANGED <<cfg, storeVars, transportVars, now, registryVars, calls, boot, crashes,
                   histVars>>

\* the while loop ends at its head
ScanDone(r) ==
    LET j == runner[r].job IN
    /\ runner[r].pc = "scan"
    /\ ~scan_continues(cfg[j], runner[r].current_message_id, runner[r].messages_to_forward)
    /\ runner' = Set(r, [runner[r] EXCEPT !.pc = "forward", !.idx = 1])
    /\ ev' = Quiet
    /\ UNCHANGED <<cfg, storeVars, transportVars, now, registryVars, calls, boot, crashes,
                   histVars>>

\* get_messages answers: the for loop classifies the window, the scan position
\* moves behind the last message examined, and an unbounded job that is short
\* of its batch stops scanning
FetchOk(r) ==
    LET j == runner[r].job
        c == cfg[j]
        w == Window(r)
        res == scan_messages(c, w.lo, w.hi, runner[r].messages_to_forward,
                             runner[r].last_checked_message_id)
        short == Len(res.messages_to_forward) < c.batch_size /\ c.end_post_id = UNBOUNDED
    IN
    /\ runner[r].pc = "scan"
    /\ scan_continues(c, runner[r].current_message_id, runner[r].messages_to_forward)
    /\ w.hi <= ScanLimit(cfg[j])
    /\ runner' = Set(r, [runner[r] EXCEPT
           !.pc = IF short THEN "forward" ELSE "scan",
           !.idx = IF short THEN 1 ELSE 0,
           !.messages_to_forward = res.messages_to_forward,
           !.last_checked_message_id = res.last_checked_message_id,
           !.current_message_id = res.last_checked_message_id + 1])
    /\ fetched' = [fetched EXCEPT ![j] = @ \cup (w.lo..w.hi)]
    /\ ev' = Event("fetch", j, r, w.lo, w.hi)
    /\ UNCHANGED <<cfg, storeVars, transportVars, now, registryVars, calls, boot, crashes,
                   handed, was_reset>>

\* get_messages raises FloodWait: sleep e.value, then the loop head again
FetchFlood(r) ==
    LET j == runner[r].job
        w == Window(r) IN
    /\ runner[r].pc = "scan"
    /\ scan_continues(cfg[j], runner[r].current_message_id, runner[r].messages_to_forward)
    /\ w.hi <= ScanLimit(cfg[j])
    /\ \E t \in WaitSeconds : ev' = Slept(Event("fetch_flood", j, r, w.lo, w.hi), t)
    /\ UNCHANGED <<cfg, storeVars, transportVars, now, registryVars, runner, calls, boot,
                   crashes, histVars>>

\* get_messages raises another exception: current_message_id += 1, sleep BATCH_DELAY
FetchError(r) ==
    LET j == runner[r].job
        w == Window(r) IN
    /\ runner[r].pc = "scan"
    /\ scan_continues(cfg[j], runner[r].current_message_id, runner[r].messages_to_forward)
    /\ w.hi <= ScanLimit(cfg[j])
    /\ runner' = Set(r, [runner[r] EXCEPT !.current_message_id = @ + 1])
    /\ ev' = Event("fetch_error", j, r, w.lo, w.hi)
    /\ UNCHANGED <<cfg, storeVars, transportVars, now, registryVars, calls, boot, crashes,
                   histVars>>

\* send_custom_message returns the copy: the target holds a new message and
\* add_forwarded_message records it
SendOk(r) ==
    LET j == runner[r].job
        id == runner[r].messages_to_forward[runner[r].idx] IN
    /\ runner[r].pc = "forward"
    /\ runner[r].idx <= Len(runner[r].messages_to_forward)
    /\ nextDest <= MaxSends
    /\ target' = target \cup {nextDest}
    /\ nextDest' = nextDest + 1
    /\ forwarded_messages' = add_forwarded_message(j, id, nextDest)
    /\ handed' = [handed EXCEPT ![j] = @ \cup {id}]
    /\ runner' = Set(r, [runner[r] EXCEPT !.idx = @ + 1, !.forwarded_count = @ + 1])
    /\ ev' = Event("send", j, r, id, nextDest)
    /\ UNCHANGED <<cfg, jobs, now, registryVars, calls, boot, crashes, fetched, was_reset>>

\* mutant of SendFail: the failure ends the forward loop
SendFailAborts(r) ==
    LET j == runner[r].job
        id == runner[r].messages_to_forward[runner[r].idx] IN
    /\ runner[r].pc = "forward"
    /\ runner[r].idx <= Len(runner[r].messages_to_forward)
    /\ handed' = [handed EXCEPT ![j] = @ \cup {id}]
    /\ runner' = Set(r, [runner[r] EXCEPT !.idx = Len(runner[r].messages_to_forward) + 1])
    /\ ev' = Event("send_fail", j, r, id, 0)
    /\ UNCHANGED <<cfg, storeVars, transportVars, now, registryVars, calls, boot, crashes,
                   fetched, was_reset>>

\* msg.copy raises (FloodWait or any other exception): send_custom_message logs
\* it and returns None, nothing is recorded and the loop goes on
SendFail(r) ==
    LET j == runner[r].job
        id == runner[r].messages_to_forward[runner[r].idx] IN
    /\ runner[r].pc = "forward"
    /\ runner[r].idx <= Len(runner[r].messages_to_forward)
    /\ handed' = [handed EXCEPT ![j] = @ \cup {id}]
    /\ runner' = Set(r, [runner[r] EXCEPT !.idx = @ + 1])
    /\ ev' = Event("send_fail", j, r, id, 0)
    /\ UNCHANGED <<cfg, storeVars, transportVars, now, registryVars, calls, boot, crashes,
                   fetched, was_reset>>

\* msg.copy raises FloodWait: send_custom_message catches it as it catches every
\* exception and returns None; the `except FloodWait` of the forward loop is not
\* reached, nothing is recorded and the loop goes on after FORWARD_DELAY
SendFlood(r) ==
    LET j == runner[r].job
        id == runner[r].messages_to_forward[runner[r].idx] IN
    /\ runner[r].pc = "forward"
    /\ runner[r].idx <= Len(runner[r].messages_to_forward)
    /\ handed' = [handed EXCEPT ![j] = @ \cup {id}]
    /\ runner' = Set(r, [runner[r] EXCEPT !.idx = @ + 1])
    /\ ev' = Event("send_flood", j, r, id, 0)
    /\ UNCHANGED <<cfg, storeVars, transportVars, now, registryVars, calls, boot, crashes,
                   fetched, was_reset>>

\* mutant of Commit: the cursor written is the id of the last message of the batch
CommitLastOfBatch(r) ==
    LET j == runner[r].job
        batch == runner[r].messages_to_forward
        id == IF batch = <<>> THEN runner[r].last_forwarded_id ELSE batch[Len(batch)] IN
    /\ runner[r].pc = "forward"
    /\ runner[r].idx > Len(batch)
    /\ jobs' = update_last_forwarded(j, id)
    /\ runner' = Set(r, [runner[r] EXCEPT !.pc = "committed"])
    /\ ev' = Event("commit", j, r, id, jobs[j].last_forwarded_id)
    /\ UNCHANGED <<cfg, forwarded_messages, transportVars, now, registryVars, calls, boot,
                   crashes, histVars>>

\* update_last_forwarded(job['id'], last_checked_message_id) after the for loop
Commit(r) ==
    LET j == runner[r].job IN
    /\ runner[r].pc = "forward"
    /\ runner[r].idx > Len(runner[r].messages_to_forward)
    /\ jobs' = update_last_forwarded(j, runner[r].last_checked_message_id)
    /\ runner' = Set(r, [runner[r] EXCEPT !.pc = "committed"])
    /\ ev' = Event("commit", j, r, runner[r].last_checked_message_id,
                   jobs[j].last_forwarded_id)
    /\ UNCHANGED <<cfg, forwarded_messages, transportVars, now, registryVars, calls, boot,
                   crashes, histVars>>

\* update_last_forwarded raises: the exception leaves process_job_batch and the
\* `async with` block, which releases the lock; run_job logs it, sleeps 60 s and
\* goes back to the top of its loop
CommitFail(r) ==
    LET j == runner[r].job IN
    /\ runner[r].pc = "forward"
    /\ runner[r].idx > Len(runner[r].messages_to_forward)
    /\ lockHolder' = [lockHolder EXCEPT ![runner[r].lock] = 0]
    /\ runner' = Set(r, AtTop(r))
    /\ ev' = Event("cooldown", j, r, 60, runner[r].last_forwarded_id)
    /\ UNCHANGED <<cfg, storeVars, transportVars, now, active_jobs, job_locks, job_tasks,
                   nextTask, calls, boot, crashes, histVars>>

\* mutant of CleanupQuery: the expired documents are read and stay stored
CleanupQueryKeepsRecords(r) ==
    LET j == runner[r].job
        old == OldForwarded(j, cfg[j].delete_time) IN
    /\ runner[r].pc = "committed"
    /\ cfg[j].delete_time > 0
    /\ runner' = Set(r, [runner[r] EXCEPT
           !.pc = "cleanup", !.old_messages = {d.forwarded_message_id : d \in old}])
    /\ ev' = Event("cleanup", j, r, Cardinality(old), 0)
    /\ UNCHANGED <<cfg, storeVars, transportVars, now, registryVars, calls, boot, crashes,
                   histVars>>

\* cleanup_old_messages, get_old_forwarded_messages: the expired documents are
\* read and removed from the collection
CleanupQuery(r) ==
    LET j == runner[r].job
        old == OldForwarded(j, cfg[j].delete_time) IN
    /\ runner[r].pc = "committed"
    /\ cfg[j].delete_time > 0
    /\ forwarded_messages' = forwarded_messages \ old
    /\ runner' = Set(r, [runner[r] EXCEPT
           !.pc = "cleanup", !.old_messages = {d.forwarded_message_id : d \in old}])
    /\ ev' = Event("cleanup", j, r, Cardinality(old), 0)
    /\ UNCHANGED <<cfg, jobs, transportVars, now, registryVars, calls, boot, crashes,
                   histVars>>

\* delete_messages(target, old_messages) succeeds
CleanupDelete(r) ==
    LET j == runner[r].job IN
    /\ runner[r].pc = "cleanup"
    /\ runner[r].old_messages # {}
    /\ target' = target \ runner[r].old_messages
    /\ runner' = Set(r, [runner[r] EXCEPT !.pc = "cleaned"])
    /\ ev' = Event("delete_messages", j, r, 0, 0)
    /\ UNCHANGED <<cfg, storeVars, nextDest, now, registryVars, calls, boot, crashes,
                   histVars>>

\* delete_messages raises: the exception is logged
CleanupDeleteFail(r) ==
    LET j == runner[r].job IN
    /\ runner[r].pc = "cleanup"
    /\ runner[r].old_messages # {}
    /\ runner' = Set(r, [runner[r] EXCEPT !.pc = "cleaned"])
    /\ ev' = Event("delete_failed", j, r, 0, 0)
    /\ UNCHANGED <<cfg, storeVars, transportVars, now, registryVars, calls, boot, crashes,
                   histVars>>

\* delete_messages raises FloodWait: cleanup_old_messages catches it as it
\* catches every exception, logs it and returns
CleanupDeleteFlood(r) ==
    LET j == runner[r].job IN
    /\ runner[r].pc = "cleanup"
    /\ runner[r].old_messages # {}
    /\ runner' = Set(r, [runner[r] EXCEPT !.pc = "cleaned"])
    /\ ev' = Event("delete_flood", j, r, 0, 0)
    /\ UNCHANGED <<cfg, storeVars, transportVars, now, registryVars, calls, boot, crashes,
                   histVars>>

\* the cycle's last await has returned
cycle_over(r) ==
    LET j == runner[r].job IN
    CASE runner[r].pc = "committed" -> cfg[j].delete_time <= 0
      [] runner[r].pc = "cleanup"   -> runner[r].old_messages = {}
      [] runner[r].pc = "cleaned"   -> TRUE
      [] OTHER                      -> FALSE

\* The `async with` block ends: the lock is released and the task sleeps
\* 2 x interval or interval, decided on the document read at the top of the cycle.
EndCycle(r) ==
    LET j == runner[r].job IN
    /\ cycle_over(r)
    /\ lockHolder' = [lockHolder EXCEPT ![runner[r].lock] = 0]
    /\ runner' = Set(r, AtTop(r))
    /\ ev' = Event("sleep", j, r, cycle_sleep(cfg[j], runner[r].last_forwarded_id),
                   runner[r].last_forwarded_id)
    /\ UNCHANGED <<cfg, storeVars, transportVars, now, active_jobs, job_locks, job_tasks,
                   nextTask, calls, boot, crashes, histVars>>

\* a cycle without retention of a task that finds its lock free and its job
\* active, the store and get_messages answering
CycleStep ==
    \E r \in Tasks :
        \/ RunTop(r, get_job(runner[r].job)) \/ RunBegin(r)
        \/ ScanDone(r) \/ FetchOk(r)
        \/ SendOk(r) \/ SendFail(r) \/ Commit(r) \/ EndCycle(r)

\* a task that waited for its lock, a task that finds its job stopped or missing
HandoverStep ==
    \E r \in Tasks : RunAcquire(r, get_job(runner[r].job)) \/ RunBreak(r)

RunnerStep == CycleStep \/ HandoverStep

\* the retention phase of a cycle
RetentionStep ==
    \E r \in Tasks : CleanupQuery(r) \/ CleanupDelete(r) \/ CleanupDeleteFail(r)

\* get_messages fails
FetchFaultStep ==
    \E r \in Tasks : FetchFlood(r) \/ FetchError(r)

\* the transport answers a call with FloodWait
RateLimitStep ==
    \E r \in Tasks : FetchFlood(r) \/ SendFlood(r) \/ CleanupDeleteFlood(r)

\* the read of the job document fails
reads_job(r) ==
    \/ runner[r].pc = "top" /\ enabled_flag(runner[r].job)
                            /\ lockHolder[job_locks[runner[r].job]] = 0
    \/ runner[r].pc = "wait_lock"

StoreFaultStep ==
    \E r \in Tasks :
        /\ reads_job(r)
        /\ RunTop(r, get_job_failed) \/ RunAcquire(r, get_job_failed)

\* a task that finds its lock free fails to read the job document
TopReadFails == \E r \in Tasks : reads_job(r) /\ RunTop(r, get_job_failed)

\* a task finds its job stopped or missing
BreakStep == \E r \in Tasks : RunBreak(r)

(* ------------------------------ handlers ------------------------------ *)
SetCall(c, rec) == [calls EXCEPT ![c] = rec]

\* a handler call takes the lowest free slot
FreeSlot(c) == calls[c].kind = "none" /\ \A d \in Calls : d < c => calls[d].kind # "none"

\* mutant of ActiveInStore: the find has no filter
AllInStore == {j \in Jobs : jobs[j].exists}

\* jobs.find({'is_active': True})
ActiveInStore == {j \in Jobs : jobs[j].exists /\ jobs[j].is_active}

\* Tasks a new start call on j, the start calls in flight and a pending resume loop
\* may create: a start call is taken only while MaxTasks leaves room for them.
TasksReserved(j) ==
    LET starting == {c \in Calls : calls[c].kind = "start"} IN
    Cardinality(starting) + 1
    + (IF boot = "starting"
       THEN Cardinality(ActiveInStore \cup {calls[c].job : c \in starting} \cup {j})
       ELSE 0)

\* the handler is entered and its `job = await self.db.get_job(job_id)` answers
Invoke(c, kind, j) ==
    LET doc == get_job(j) IN
    /\ FreeSlot(c)
    /\ calls' = SetCall(c, [kind |-> kind, job |-> j, pc |-> "read", found |-> doc.found,
                            is_active |-> doc.is_active])
    /\ ev' = Event(kind, j, 0, 0, 0)
    /\ UNCHANGED <<cfg, storeVars, transportVars, now, registryVars, runner, boot, crashes,
                   histVars>>

\* the three statements of start_job and of AutoposterBot.start that register a
\* job and create its task
Spawn(j) ==
    /\ nextTask <= MaxTasks
    /\ active_jobs' = [active_jobs EXCEPT ![j] = "True"]
    /\ job_locks' = [job_locks EXCEPT ![j] = nextTask]
    /\ job_tasks' = [job_tasks EXCEPT ![j] = nextTask]
    /\ lockHolder' = [lockHolder EXCEPT ![nextTask] = 0]
    /\ runner' = Set(nextTask, [NoRunner EXCEPT !.job = j, !.via = "start", !.pc = "top"])
    /\ nextTask' = nextTask + 1

StartJobCall(c, j) ==
    /\ nextTask - 1 + TasksReserved(j) <= MaxTasks
    /\ Invoke(c, "start", j)

\* start_job: job missing, or `if job['is_active']` ("Job is already running!")
StartJobReject(c) ==
    /\ calls[c].kind = "start" /\ calls[c].pc = "read"
    /\ ~(calls[c].found /\ ~calls[c].is_active)
    /\ calls' = SetCall(c, NoCall)
    /\ ev' = Event("start_reject", calls[c].job, 0, 0, 0)
    /\ UNCHANGED <<cfg, storeVars, transportVars, now, registryVars, runner, boot, crashes,
                   histVars>>

\* start_job: update_job_status(job_id, True)
StartJobUpdate(c) ==
    /\ calls[c].kind = "start" /\ calls[c].pc = "read"
    /\ calls[c].found /\ ~calls[c].is_active
    /\ jobs' = update_job_status(calls[c].job, TRUE)
    /\ calls' = SetCall(c, [calls[c] EXCEPT !.pc = "register"])
    /\ ev' = Event("start_update", calls[c].job, 0, 0, 0)
    /\ UNCHANGED <<cfg, forwarded_messages, transportVars, now, registryVars, runner, boot,
                   crashes, histVars>>

\* mutant of StartJobRegister: the job is registered whatever its flag
StartJobRegisterAlways(c) ==
    LET j == calls[c].job IN
    /\ calls[c].kind = "start" /\ calls[c].pc = "register"
    /\ Spawn(j)
    /\ ev' = Event("start_spawn", j, nextTask, 0, 0)
    /\ calls' = SetCall(c, NoCall)
    /\ UNCHANGED <<cfg, storeVars, transportVars, now, boot, crashes, histVars>>

\* start_job: `if job_id not in self.active_jobs or not self.active_jobs[job_id]`
StartJobRegister(c) ==
    LET j == calls[c].job IN
    /\ calls[c].kind = "start" /\ calls[c].pc = "register"
    /\ IF active_jobs[j] # "True"
       THEN /\ Spawn(j)
            /\ ev' = Event("start_spawn", j, nextTask, 0, 0)
       ELSE /\ UNCHANGED <<registryVars, runner>>
            /\ ev' = Event("start_nospawn", j, 0, 0, 0)
    /\ calls' = SetCall(c, NoCall)
    /\ UNCHANGED <<cfg, storeVars, transportVars, now, boot, crashes, histVars>>

StopJobCall(c, j) == Invoke(c, "stop", j)

\* stop_job: job missing
StopJobReject(c) ==
    /\ calls[c].kind = "stop" /\ calls[c].pc = "read"
    /\ ~calls[c].found
    /\ calls' = SetCall(c, NoCall)
    /\ ev' = Event("stop_reject", calls[c].job, 0, 0, 0)
    /\ UNCHANGED <<cfg, storeVars, transportVars, now, registryVars, runner, boot, crashes,
                   histVars>>

\* stop_job: update_job_status(job_id, False)
StopJobUpdate(c) ==
    /\ calls[c].kind = "stop" /\ calls[c].pc = "read"
    /\ calls[c].found
    /\ jobs' = update_job_status(calls[c].job, FALSE)
    /\ calls' = SetCall(c, [calls[c] EXCEPT !.pc = "flag"])
    /\ ev' = Event("stop_update", calls[c].job, 0, 0, 0)
    /\ UNCHANGED <<cfg, forwarded_messages, transportVars, now, registryVars, runner, boot,
                   crashes, histVars>>

\* `if job_id in self.active_jobs: self.active_jobs[job_id] = False`
flag_off(j) == IF active_jobs[j] # "absent" THEN [active_jobs EXCEPT ![j] = "False"]
               ELSE active_jobs

\* stop_job: the local flag is cleared
StopJobFlag(c) ==
    /\ calls[c].kind = "stop" /\ calls[c].pc = "flag"
    /\ active_jobs' = flag_off(calls[c].job)
    /\ calls' = SetCall(c, NoCall)
    /\ ev' = Event("stop_flag", calls[c].job, 0, 0, 0)
    /\ UNCHANGED <<cfg, storeVars, transportVars, now, job_locks, job_tasks, lockHolder,
                   nextTask, runner, boot, crashes, histVars>>

ResetCall(c, j) == Invoke(c, "reset", j)

\* reset_job_progress_action: job missing, or "Please stop the job before resetting"
ResetReject(c) ==
    /\ calls[c].kind = "reset" /\ calls[c].pc = "read"
    /\ ~(calls[c].found /\ ~calls[c].is_active)
    /\ calls' = SetCall(c, NoCall)
    /\ ev' = Event("reset_reject", calls[c].job, 0, IF calls[c].found THEN 1 ELSE 0, 0)
    /\ UNCHANGED <<cfg, storeVars, transportVars, now, registryVars, runner, boot, crashes,
                   histVars>>

\* mutant of ResetCursor: the cursor is written whatever the active flag read
ResetCursorAnyway(c) ==
    LET j == calls[c].job IN
    /\ calls[c].kind = "reset" /\ calls[c].pc = "read"
    /\ calls[c].found
    /\ jobs' = reset_cursor(j, cfg[j].start_post_id)
    /\ was_reset' = [was_reset EXCEPT ![j] = TRUE]
    /\ calls' = SetCall(c, [calls[c] EXCEPT !.pc = "purge"])
    /\ ev' = Event("reset_cursor", j, 0, cfg[j].start_post_id - 1, jobs[j].last_forwarded_id)
    /\ UNCHANGED <<cfg, forwarded_messages, transportVars, now, registryVars, runner, boot,
                   crashes, fetched, handed>>

\* Database.reset_job_progress, first await: the cursor
ResetCursor(c) ==
    LET j == calls[c].job IN
    /\ calls[c].kind = "reset" /\ calls[c].pc = "read"
    /\ calls[c].found /\ ~calls[c].is_active
    /\ jobs' = reset_cursor(j, cfg[j].start_post_id)
    /\ was_reset' = [was_reset EXCEPT ![j] = TRUE]
    /\ calls' = SetCall(c, [calls[c] EXCEPT !.pc = "purge"])
    /\ ev' = Event("reset_cursor", j, 0, cfg[j].start_post_id - 1, jobs[j].last_forwarded_id)
    /\ UNCHANGED <<cfg, forwarded_messages, transportVars, now, registryVars, runner, boot,
                   crashes, fetched, handed>>

\* Database.reset_job_progress, second await: the forward records
ResetPurge(c) ==
    LET j == calls[c].job IN
    /\ calls[c].kind = "reset" /\ calls[c].pc = "purge"
    /\ forwarded_messages' = delete_forwarded(j)
    /\ calls' = SetCall(c, NoCall)
    /\ ev' = Event("reset_done", j, 0,
                   Cardinality(forwarded_messages \ delete_forwarded(j)), 0)
    /\ UNCHANGED <<cfg, jobs, transportVars, now, registryVars, runner, boot, crashes,
                   histVars>>

DeleteCall(c, j) == Invoke(c, "delete", j)

\* delete_job_confirmed: job missing
DeleteReject(c) ==
    /\ calls[c].kind = "delete" /\ calls[c].pc = "read"
    /\ ~calls[c].found
    /\ calls' = SetCall(c, NoCall)
    /\ ev' = Event("delete_reject", calls[c].job, 0, 0, 0)
    /\ UNCHANGED <<cfg, storeVars, transportVars, now, registryVars, runner, boot, crashes,
                   histVars>>

\* delete_job_confirmed, `if job['is_active']`: update_job_status(job_id, False)
DeleteDeactivate(c) ==
    /\ calls[c].kind = "delete" /\ calls[c].pc = "read"
    /\ calls[c].found /\ calls[c].is_active
    /\ jobs' = update_job_status(calls[c].job, FALSE)
    /\ calls' = SetCall(c, [calls[c] EXCEPT !.pc = "flag"])
    /\ ev' = Event("delete_update", calls[c].job, 0, 0, 0)
    /\ UNCHANGED <<cfg, forwarded_messages, transportVars, now, registryVars, runner, boot,
                   crashes, histVars>>

\* the local flag is cleared, then Database.delete_job removes the forward records
DeleteFlagPurge(c) ==
    LET j == calls[c].job IN
    /\ calls[c].kind = "delete" /\ calls[c].pc = "flag"
    /\ active_jobs' = flag_off(j)
    /\ forwarded_messages' = delete_forwarded(j)
    /\ calls' = SetCall(c, [calls[c] EXCEPT !.pc = "drop"])
    /\ ev' = Event("delete_purge", j, 0, 0, 0)
    /\ UNCHANGED <<cfg, jobs, transportVars, now, job_locks, job_tasks, lockHolder, nextTask,
                   runner, boot, crashes, histVars>>

\* inactive job: Database.delete_job removes the forward records
DeletePurge(c) ==
    LET j == calls[c].job IN
    /\ calls[c].kind = "delete" /\ calls[c].pc = "read"
    /\ calls[c].found /\ ~calls[c].is_active
    /\ forwarded_messages' = delete_forwarded(j)
    /\ calls' = SetCall(c, [calls[c] EXCEPT !.pc = "drop"])
    /\ ev' = Event("delete_purge", j, 0, 0, 0)
    /\ UNCHANGED <<cfg, jobs, transportVars, now, registryVars, runner, boot, crashes,
                   histVars>>

\* Database.delete_job removes the job document
DeleteDrop(c) ==
    LET j == calls[c].job IN
    /\ calls[c].kind = "delete" /\ calls[c].pc = "drop"
    /\ jobs' = [jobs EXCEPT ![j] = NoJob]
    /\ calls' = SetCall(c, NoCall)
    /\ ev' = Event("delete_done", j, 0, 0, 0)
    /\ UNCHANGED <<cfg, forwarded_messages, transportVars, now, registryVars, runner, boot,
                   crashes, histVars>>

\* start_job / stop_job / reset / delete calls in the slots C on the jobs J
StartStep(C, J) ==
    \E c \in C :
        \/ \E j \in J : StartJobCall(c, j)
        \/ StartJobReject(c) \/ StartJobUpdate(c) \/ StartJobRegister(c)

StopStep(C, J) ==
    \E c \in C :
        \/ \E j \in J : StopJobCall(c, j)
        \/ StopJobUpdate(c) \/ StopJobFlag(c)

ResetStep(C, J) ==
    \E c \in C :
        \/ \E j \in J : ResetCall(c, j)
        \/ ResetReject(c) \/ ResetCursor(c) \/ ResetPurge(c)

\* a stop call that finds its job deleted
StopMissingStep(C) == \E c \in C : StopJobReject(c)

DeleteStep(C, J) ==
    \E c \in C :
        \/ \E j \in J : DeleteCall(c, j)
        \/ DeleteReject(c) \/ DeleteDeactivate(c) \/ DeleteFlagPurge(c)
        \/ DeletePurge(c) \/ DeleteDrop(c)

(* --------------------------- process lifetime ------------------------- *)
\* The job document is removed from the jobs collection by another client of the
\* database: the handlers, the registry and the tasks of this process see nothing.
ExternalDelete(j) ==
    /\ jobs[j].exists
    /\ jobs' = [jobs EXCEPT ![j] = NoJob]
    /\ ev' = Event("dropped", j, 0, 0, 0)
    /\ UNCHANGED <<cfg, forwarded_messages, transportVars, now, registryVars, runner, calls,
                   boot, crashes, histVars>>

\* The process dies: everything in memory is lost, the store and the channels stay.
\* The next process has connected and started the client (AutoposterBot.start up
\* to its resume loop).
Crash ==
    /\ crashes < MaxCrashes
    /\ crashes' = crashes + 1
    /\ boot' = "starting"
    /\ active_jobs' = [j \in Jobs |-> "absent"]
    /\ job_locks' = [j \in Jobs |-> 0]
    /\ job_tasks' = [j \in Jobs |-> 0]
    /\ lockHolder' = [t \in Tasks |-> 0]
    /\ nextTask' = 1
    /\ runner' = [t \in Tasks |-> NoRunner]
    /\ calls' = [c \in Calls |-> NoCall]
    /\ ev' = Event("crash", "none", 0, 0, 0)
    /\ UNCHANGED <<cfg, storeVars, transportVars, now, histVars>>

\* AutoposterBot.stop: every flag in active_jobs is set to False and every task
\* in job_tasks that has not returned is cancelled: CancelledError is raised at
\* its await, the `async with` block releases its lock and run_job is left
\* without reaching the deletion of the registry entries.  Nothing is written to
\* the store.  A task that job_tasks no longer names is not cancelled.
Shutdown ==
    LET cancelled == {t \in Tasks : /\ \E j \in Jobs : job_tasks[j] = t
                                    /\ runner[t].pc \notin {"none", "done"}} IN
    /\ boot = "running"
    /\ crashes < MaxCrashes
    /\ boot' = "stopped"
    /\ active_jobs' = [j \in Jobs |-> IF active_jobs[j] = "absent" THEN "absent" ELSE "False"]
    /\ runner' = [t \in Tasks |-> IF t \in cancelled THEN Finished(t) ELSE runner[t]]
    /\ lockHolder' = [L \in Tasks |-> IF lockHolder[L] \in cancelled THEN 0 ELSE lockHolder[L]]
    /\ ev' = Event("shutdown", "none", 0, Cardinality(cancelled), 0)
    /\ UNCHANGED <<cfg, storeVars, transportVars, now, job_locks, job_tasks, nextTask, calls,
                   crashes, histVars>>

\* the order in which the find cursor yields the active jobs
ResumeOrder ==
    CHOOSE f \in [1..Cardinality(ActiveInStore) -> ActiveInStore] :
        \A a, b \in DOMAIN f : a # b => f[a] # f[b]

\* the task the resume loop creates for an active job
ResumeTask(j) == nextTask - 1 + CHOOSE i \in DOMAIN ResumeOrder : ResumeOrder[i] = j

\* AutoposterBot.start, "Resume active jobs": every job stored active is
\* registered with a new lock and a new task
Resume ==
    /\ boot = "starting"
    /\ boot' = "running"
    /\ nextTask - 1 + Cardinality(ActiveInStore) <= MaxTasks
    /\ active_jobs' = [j \in Jobs |-> IF j \in ActiveInStore THEN "True" ELSE active_jobs[j]]
    /\ job_locks' = [j \in Jobs |-> IF j \in ActiveInStore THEN ResumeTask(j) ELSE job_locks[j]]
    /\ job_tasks' = [j \in Jobs |-> IF j \in ActiveInStore THEN ResumeTask(j) ELSE job_tasks[j]]
    /\ lockHolder' = [t \in Tasks |->
           IF \E j \in ActiveInStore : ResumeTask(j) = t THEN 0 ELSE lockHolder[t]]
    /\ runner' = [t \in Tasks |->
           IF \E j \in ActiveInStore : ResumeTask(j) = t
           THEN [NoRunner EXCEPT !.job = CHOOSE j \in ActiveInStore : ResumeTask(j) = t,
                                 !.via = "resume", !.pc = "top"]
           ELSE runner[t]]
    /\ nextTask' = nextTask + Cardinality(ActiveInStore)
    /\ ev' = Event("resume", "none", 0, Cardinality(ActiveInStore), 0)
    /\ UNCHANGED <<cfg, storeVars, transportVars, now, calls, crashes, histVars>>

\* AutoposterBot.start, `except Exception`: the find raises, the error is logged
\* and no job is resumed
ResumeFail ==
    /\ boot = "starting"
    /\ boot' = "running"
    /\ ev' = Event("resume_failed", "none", 0, 0, 0)
    /\ UNCHANGED <<cfg, storeVars, transportVars, now, registryVars, runner, calls, crashes,
                   histVars>>

\* a minute passes
Tick ==
    /\ now < MaxTime
    /\ now' = now + 1
    /\ ev' = Quiet
    /\ UNCHANGED <<cfg, storeVars, transportVars, registryVars, runner, calls, boot, crashes,
                   histVars>>

\* a minute passes while every task sleeps and no handler runs
TickAsleep ==
    /\ \A r \in Tasks : runner[r].pc \in {"none", "top", "done"}
    /\ \A c \in Calls : calls[c].kind = "none"
    /\ Tick

(* --------------------------- specifications --------------------------- *)
Cfg(c1, c2) == [j \in Jobs |-> IF j = "j1" THEN c1 ELSE c2]

\* j2 in every specification: ids 1..3, two messages per cycle
Other == JobConfig(1, 3, 2, "all", 0)

\* start and stop calls, one at a time, on a job whose Runner meets failing
\* fetches and failing reads of the job document
CoreConfigs ==
    { Cfg(JobConfig(1, 3, 1, "all", 0), Other),
      Cfg(JobConfig(2, UNBOUNDED, 1, "media", 0), Other) }

Init == InitWith(CoreConfigs)

Next ==
    \/ RunnerStep \/ FetchFaultStep \/ StoreFaultStep
    \/ StartStep({1}, {"j1"}) \/ StopStep({1}, {"j1"})

Spec == Init /\ [][Next]_vars


\* the job made with links to the messages 999998 and 999999 of a channel that
\* has grown past them
LastTwo ==
    WithEndLink(OnChannel(JobConfig(UNBOUNDED - 1, UNBOUNDED, 1, "all", 0), UNBOUNDED + MaxId))

\* one Runner, started once, over many job documents, with failing fetches; two
\* of the jobs read a source channel that ends before the scan does
ScanConfigs ==
    { Cfg(JobConfig(s, e, b, f, 0), Other) :
        s \in {1, 3}, e \in {4, 7, UNBOUNDED}, b \in {1, 2}, f \in {"all", "media", "text"} }
    \cup { Cfg(OnChannel(JobConfig(1, UNBOUNDED, 2, "text", 0), 7), Other),
           Cfg(OnChannel(JobConfig(1, 7, 1, "text", 0), 2), Other),
           Cfg(LastTwo, Other) }

InitScan == InitWith(ScanConfigs)

NextScan == CycleStep \/ FetchFaultStep \/ StartStep({1}, {"j1"})

SpecScan == InitScan /\ [][NextScan]_vars

\* both jobs started and stopped, the process crashing and starting again; the
\* store and the transport answer
CrashConfigs == { Cfg(JobConfig(1, 3, 1, "all", 0), Other) }

InitCrash == InitWith(CrashConfigs)

NextCrash ==
    \/ RunnerStep
    \/ StartStep({1}, Jobs) \/ StopStep({1}, {"j1"})
    \/ Crash \/ Resume

SpecCrash == InitCrash /\ [][NextCrash]_vars

\* the same, the process also being shut down by AutoposterBot.stop before it
\* ends
NextShutdown == NextCrash \/ Shutdown

SpecShutdown == InitCrash /\ [][NextShutdown]_vars

\* start and stop calls, one at a time, on a bounded job; the store and the
\* transport answer, and the event loop runs every task that can run
LiveConfigs == { Cfg(JobConfig(1, 3, 1, "all", 0), Other) }

InitLive == InitWith(LiveConfigs)

NextLive == RunnerStep \/ StartStep({1}, {"j1"}) \/ StopStep({1}, {"j1"})

\* the steps of one task
TaskStep(r) ==
    \/ RunTop(r, get_job(runner[r].job)) \/ RunAcquire(r, get_job(runner[r].job))
    \/ RunBreak(r) \/ RunBegin(r)
    \/ ScanDone(r) \/ FetchOk(r)
    \/ SendOk(r) \/ SendFail(r) \/ Commit(r) \/ EndCycle(r)

SpecLive == InitLive /\ [][NextLive]_vars /\ \A r \in Tasks : WF_vars(TaskStep(r))

\* the same calls on a transport whose fetches fail, with FloodWait or with
\* another exception; the event loop runs every task that can run
NextRetry == NextLive \/ FetchFaultStep

\* the steps of one task, failing fetches included
RetryTaskStep(r) == TaskStep(r) \/ FetchFlood(r) \/ FetchError(r)

SpecRetry == InitLive /\ [][NextRetry]_vars /\ \A r \in Tasks : WF_vars(RetryTaskStep(r))

\* the same calls on a transport whose fetches fail and a store whose cursor
\* write may fail; the event loop runs every task that can run, and asyncio.Lock
\* wakes its waiters in the order they came, so a task waiting for a lock that is
\* free again and again gets it
NextMutex == NextRetry \/ \E r \in Tasks : CommitFail(r)

\* the steps of one task, the failing calls included
MutexTaskStep(r) == RetryTaskStep(r) \/ CommitFail(r)

SpecMutex ==
    /\ InitLive /\ [][NextMutex]_vars
    /\ \A r \in Tasks : /\ WF_vars(MutexTaskStep(r))
                        /\ SF_vars(RunAcquire(r, get_job(runner[r].job)))

\* start calls that interleave, on a job nobody stops, while the clock advances
StartConfigs == { Cfg(JobConfig(1, 3, 1, "all", 0), Other) }

InitStart == InitWith(StartConfigs)

NextStart == CycleStep \/ StartStep(Calls, {"j1"}) \/ Tick

SpecStart == InitStart /\ [][NextStart]_vars

\* two jobs, one with a retention time, started, stopped and reset; the minutes
\* pass during the sleeps between the cycles
ResetConfigs == { Cfg(JobConfig(1, 1, 1, "all", 1), JobConfig(3, 3, 1, "all", 0)) }

InitReset == InitWith(ResetConfigs)

NextReset ==
    \/ RunnerStep \/ RetentionStep \/ TickAsleep
    \/ StartStep({1}, Jobs) \/ StopStep({1}, {"j1"}) \/ ResetStep({1}, {"j1"})

SpecReset == InitReset /\ [][NextReset]_vars

\* a job started, stopped and deleted, one call at a time; the store and the
\* transport answer; the second job scans two windows in a cycle, its source
\* channel ending at id 2
DeleteConfigs ==
    { Cfg(JobConfig(1, 3, 1, "all", 0), Other),
      Cfg(OnChannel(JobConfig(1, 7, 1, "text", 0), 2), Other) }

InitDelete == InitWith(DeleteConfigs)

NextDelete ==
    \/ RunnerStep
    \/ StartStep({1}, {"j1"}) \/ StopStep({1}, {"j1"}) \/ StopMissingStep({1})
    \/ DeleteStep({1}, {"j1"})

SpecDelete == InitDelete /\ [][NextDelete]_vars

\* one Runner with a batch of two and a retention time, on a transport that
\* answers any call with FloodWait
FloodConfigs == { Cfg(JobConfig(1, 3, 2, "all", 1), Other) }

InitFlood == InitWith(FloodConfigs)

NextFlood ==
    \/ CycleStep \/ RetentionStep \/ RateLimitStep \/ TickAsleep
    \/ StartStep({1}, {"j1"})

SpecFlood == InitFlood /\ [][NextFlood]_vars

\* a job started and never stopped nor deleted, on a transport whose fetches
\* fail and a store whose reads of the job document fail
FaultConfigs == { Cfg(JobConfig(1, 3, 1, "all", 0), Other) }

InitFault == InitWith(FaultConfigs)

NextFault ==
    \/ CycleStep \/ BreakStep \/ FetchFaultStep \/ TopReadFails
    \/ StartStep({1}, {"j1"})

SpecFault == InitFault /\ [][NextFault]_vars

\* two jobs running side by side, one with a retention time, the other stopped
\* and started again, on a transport whose calls fail or are rate-limited
IsolationConfigs == { Cfg(JobConfig(1, 1, 1, "all", 1), JobConfig(3, 3, 1, "all", 0)) }

InitIsolation == InitWith(IsolationConfigs)

NextIsolation ==
    \/ RunnerStep \/ RetentionStep \/ RateLimitStep \/ FetchFaultStep \/ TickAsleep
    \/ StartStep({1}, Jobs) \/ StopStep({1}, {"j2"})

SpecIsolation == InitIsolation /\ [][NextIsolation]_vars

\* two jobs on one target, one with a retention time of a minute, started and
\* never stopped; the minutes pass during the sleeps between the cycles
RetentionConfigs == { Cfg(JobConfig(1, 3, 1, "all", 1), JobConfig(3, 3, 1, "all", 0)) }

InitRetention == InitWith(RetentionConfigs)

NextRetention == CycleStep \/ RetentionStep \/ TickAsleep \/ StartStep({1}, Jobs)

SpecRetention == InitRetention /\ [][NextRetention]_vars

\* a job started and never stopped whose document is deleted, by the delete
\* handler or by another client of the database, while its Runner cycles
GoneConfigs == { Cfg(JobConfig(1, 3, 1, "all", 0), Other) }

InitGone == InitWith(GoneConfigs)

NextGone ==
    \/ CycleStep \/ BreakStep
    \/ StartStep({1}, {"j1"}) \/ DeleteStep({1}, {"j1"}) \/ ExternalDelete("j1")

SpecGone == InitGone /\ [][NextGone]_vars

(* ------------------------------- claims ------------------------------- *)
\* a task is inside a cycle: process_job_batch has begun and the `async with`
\* block has not ended
InCycle(r) == runner[r].pc \in {"scan", "forward", "committed", "cleanup", "cleaned"}

FetchKinds == {"fetch", "fetch_flood", "fetch_error"}
SendKinds == {"send", "send_fail"}

\* C1: for every job, at most one cycle (scan, forward, cleanup) of that job is
\* in progress at any time, for every interleaving of start, stop and Runner steps.
C1_OneCyclePerJob ==
    \A j \in Jobs : Cardinality({r \in Tasks : runner[r].job = j /\ InCycle(r)}) <= 1

\* C2: no message is lost: for a job that was not reset, every id from start to
\* the committed cursor was returned by a successful fetch, and if it is present
\* and matches the filter its clone into the target was attempted.
C2_NoMessageLost ==
    \A j \in Jobs :
        (jobs[j].exists /\ ~was_reset[j]) =>
            \A i \in cfg[j].start_post_id .. jobs[j].last_forwarded_id :
                /\ i \in fetched[j]
                /\ (~SourceMessage(i).empty
                    /\ message_matches_filter(SourceMessage(i), cfg[j].filter_type))
                   => i \in handed[j]

\* C3: no source id at or below the committed cursor is requested from the
\* transport or handed to the Forwarder by that job (no reset happens here).
C3_NothingBelowCursorAgain ==
    /\ ev.kind \in FetchKinds => ev.a > jobs[ev.job].last_forwarded_id
    /\ ev.kind \in SendKinds => ev.a > jobs[ev.job].last_forwarded_id

\* C4: every commit writes a cursor greater than or equal to the cursor stored
\* before it.
C4_CommitNeverDecreases == ev.kind = "commit" => ev.a >= ev.b

StartKinds == {"start", "start_reject", "start_update", "start_spawn", "start_nospawn"}
StopKinds == {"stop", "stop_reject", "stop_update", "stop_flag"}

\* a Runner reads the stored cursor and begins its scan right behind it
ReadsStoredCursor ==
    /\ (ev.kind = "get_job" /\ runner[ev.task].found)
           => runner[ev.task].last_forwarded_id = jobs[ev.job].last_forwarded_id
    /\ ev.kind = "begin"
           => runner[ev.task].current_message_id
                  = Max(runner[ev.task].last_forwarded_id + 1, cfg[ev.job].start_post_id)

\* C6: the scan of a Runner (the one created by a start that follows a stop
\* included) begins at max(cursor + 1, start), the cursor being the stored one the
\* Runner read at the top of the cycle; no step of start or stop changes the
\* stored cursor.
C6_ResumeFromCursor ==
    /\ []ReadsStoredCursor
    /\ [][ev'.kind \in StartKinds \cup StopKinds
            => jobs'[ev'.job].last_forwarded_id = jobs[ev'.job].last_forwarded_id]_vars

\* C6 witness: the Runner created by the start that followed a stop begins its
\* first scan behind a cursor that has moved past the start bound.
C6_Witness ==
    /\ ev.kind = "begin"
    /\ ev.task = 2
    /\ runner[2].last_forwarded_id = jobs[ev.job].last_forwarded_id
    /\ runner[2].last_forwarded_id >= cfg[ev.job].start_post_id
    /\ runner[2].current_message_id = runner[2].last_forwarded_id + 1

\* the tasks a step has created for job j
Created(j) == {r \in Tasks : runner'[r] # runner[r] /\ runner'[r].job = j /\ runner'[r].pc = "top"}

\* the resume loop of a process start gives every job stored active one new
\* Runner, registered with its flag set and a free lock, gives the other jobs
\* none, and writes nothing to the store
ResumeCreatesRunners ==
    ev'.kind = "resume" =>
        /\ \A j \in Jobs :
               IF jobs[j].exists /\ jobs[j].is_active
               THEN /\ Cardinality(Created(j)) = 1
                    /\ \A r \in Created(j) : runner'[r].via = "resume" /\ job_tasks'[j] = r
                    /\ active_jobs'[j] = "True"
                    /\ lockHolder'[job_locks'[j]] = 0
               ELSE /\ Created(j) = {}
                    /\ active_jobs'[j] = active_jobs[j]
        /\ UNCHANGED storeVars

\* a resumed Runner reads the stored cursor and begins its scan right behind it
ResumedReadsCursor ==
    /\ (ev.kind = "get_job" /\ runner[ev.task].via = "resume" /\ runner[ev.task].found)
           => runner[ev.task].last_forwarded_id = jobs[ev.job].last_forwarded_id
    /\ (ev.kind = "begin" /\ runner[ev.task].via = "resume")
           => ev.a = Max(runner[ev.task].last_forwarded_id + 1, cfg[ev.job].start_post_id)

\* C7: when the process starts after a crash (the store answering), the resume
\* loop creates one Runner for each job whose stored active flag is true and none
\* for any other job, out of the store alone (the crash has emptied the
\* registry); each resumed Runner reads the stored cursor at the top of its
\* cycle and begins its scan at max(cursor + 1, start).
C7_CrashRecovery ==
    /\ []ResumedReadsCursor
    /\ [][ResumeCreatesRunners]_vars
    /\ [][ev'.kind = "crash" =>
            /\ \A j \in Jobs : active_jobs'[j] = "absent" /\ job_locks'[j] = 0 /\ job_tasks'[j] = 0
            /\ \A r \in Tasks : runner'[r].pc = "none"
            /\ UNCHANGED storeVars]_vars

\* C7 witness: after a crash with one job stored active and one stored inactive,
\* the active job's resumed Runner begins its scan behind a committed cursor and
\* the inactive job has no Runner.
C7_Witness ==
    /\ crashes = 1
    /\ ev.kind = "begin"
    /\ runner[ev.task].via = "resume"
    /\ runner[ev.task].last_forwarded_id >= cfg[ev.job].start_post_id
    /\ \E j \in Jobs : ~jobs[j].is_active /\ \A r \in Tasks : runner[r].job # j

\* the steps of a stop call write active=false and clear the flag, and leave
\* every task and every lock as they are
StopDoesNotInterrupt ==
    /\ ev'.kind = "stop_update" => ~jobs'[ev'.job].is_active
    /\ ev'.kind = "stop_flag" => active_jobs'[ev'.job] # "True"
    /\ ev'.kind \in StopKinds => UNCHANGED <<runner, lockHolder, job_locks, job_tasks>>

\* a task returns only from the top of a cycle: at the while condition or
\* right after the read of the job document
ExitsAtTop == \A r \in Tasks : (runner'[r].pc = "done" /\ runner[r].pc # "done")
                                   => runner[r].pc \in {"top", "got_job"}

\* no task of job j is left and the job's registry entries are gone
Deregistered(j) ==
    /\ active_jobs[j] = "absent"
    /\ job_locks[j] = 0
    /\ \A r \in Tasks : runner[r].job = j => runner[r].pc = "done"

\* C8: stop writes active=false to the store and clears the local flag, and no
\* step of stop changes a task or a lock; a task returns only from the top of a
\* cycle; once a stop has completed, either a start is called on the job or every
\* task of the job eventually returns and the job's registry entries are removed
\* (every task that can run eventually runs, the store and the transport answer).
C8_StopObserved ==
    /\ [][StopDoesNotInterrupt /\ ExitsAtTop]_vars
    /\ \A j \in {"j1"} :
           (ev.kind = "stop_flag" /\ ev.job = j)
               ~> (Deregistered(j) \/ (ev.kind = "start" /\ ev.job = j))

\* C8 witness: a stop has completed on a job whose only Runner had committed a
\* cursor; the Runner has returned and the registry entries are removed.
C8_Witness ==
    /\ ev.kind = "exit"
    /\ Deregistered(ev.job)
    /\ ~jobs[ev.job].is_active
    /\ jobs[ev.job].last_forwarded_id > 0
    /\ nextTask = 2
    /\ \A c \in Calls : calls[c].kind = "none"

\* the tasks of job j that have not returned
Live(j) == {r \in Tasks : runner[r].job = j /\ runner[r].pc # "done"}

\* C9 as stated: no step of a start call on a job that has a Runner writes the
\* store, changes a registry entry or creates a task.
C9_StartOnRunningWritesNothing ==
    [][(ev'.kind \in StartKinds /\ Live(ev'.job) # {})
           => UNCHANGED <<storeVars, registryVars, runner>>]_vars

\* what the steps of a start call change
StartStepsEffect ==
    /\ ev'.kind \in {"start", "start_reject", "start_nospawn"}
           => UNCHANGED <<storeVars, registryVars, runner>>
    /\ ev'.kind = "start_update"
           => /\ jobs' = [jobs EXCEPT ![ev'.job].is_active = TRUE, ![ev'.job].updated_at = now]
              /\ UNCHANGED <<forwarded_messages, registryVars, runner>>
    /\ ev'.kind = "start_spawn"
           => /\ active_jobs[ev'.job] # "True"
              /\ UNCHANGED storeVars
    /\ (ev'.kind \in StartKinds /\ ev'.kind # "start" /\ active_jobs[ev'.job] = "True")
           => ev'.kind \in {"start_reject", "start_update", "start_nospawn"}

\* C9 (amended): a start call whose read finds active=true is rejected and
\* changes nothing; a start call whose read found active=false writes active=true
\* and the update time even when another start call has registered the job since,
\* and then, finding the job's flag set, changes no registry entry and creates no
\* task; a task is created only when the flag is not set.  With start calls that
\* interleave and no stop, a job never has two Runners.
C9_StartIdempotent ==
    /\ [][StartStepsEffect]_vars
    /\ [](\A j \in Jobs : Cardinality(Live(j)) <= 1)

\* C9 witness: the second of two interleaved start calls, having written the
\* store after the first one spawned the Runner, ends without spawning.
C9_Witness ==
    /\ ev.kind = "start_nospawn"
    /\ Cardinality(Live(ev.job)) = 1
    /\ nextTask = 2
    /\ jobs[ev.job].updated_at > 0

\* the forward records of job j
RecordsOf(j) == {d \in forwarded_messages : d.job_id = j}

\* the two writes of an accepted reset: the cursor, then the forward records
ResetEffect ==
    /\ ev'.kind = "reset_cursor" =>
           /\ ~jobs[ev'.job].is_active
           /\ jobs'[ev'.job].last_forwarded_id = cfg[ev'.job].start_post_id - 1
           /\ jobs'[ev'.job].is_active = jobs[ev'.job].is_active
           /\ \A k \in Jobs \ {ev'.job} : jobs'[k] = jobs[k]
           /\ UNCHANGED <<forwarded_messages, transportVars, registryVars, runner>>
    /\ ev'.kind = "reset_done" =>
           /\ \A k \in Jobs \ {ev'.job} : RecordsOf(k)' = RecordsOf(k)
           /\ \A d \in forwarded_messages' : d.job_id # ev'.job
           /\ UNCHANGED <<jobs, transportVars, registryVars, runner>>

\* the find of a retention pass made right after a reset matches nothing
NothingToRetain ==
    ev.kind = "reset_done" => \A m \in 0..(MaxTime + 1) : OldForwarded(ev.job, m) = {}

\* C10: a reset accepted on a job stored inactive writes start - 1 to the job's
\* cursor and then deletes every forward record of the job; neither write changes
\* the job's active flag, another job's document or another job's forward
\* records; the find of a retention pass made in the state the reset leaves
\* matches no record.
C10_Reset ==
    /\ [][ResetEffect]_vars
    /\ []NothingToRetain

\* C10 witness: a reset has just deleted forward records of its job while the
\* other job has a cursor and forward records of its own, and the job's cursor
\* is start - 1 after having been higher.
C10_Witness ==
    /\ ev.kind = "reset_done"
    /\ ev.a > 0
    /\ jobs[ev.job].last_forwarded_id = cfg[ev.job].start_post_id - 1
    /\ ~jobs[ev.job].is_active
    /\ \E k \in Jobs \ {ev.job} : RecordsOf(k) # {} /\ jobs[k].last_forwarded_id > 0

\* a handler call that has read its job stored active takes a step
ActiveCallSteps(c, kind) ==
    /\ calls[c].kind = kind /\ calls[c].pc = "read"
    /\ calls[c].found /\ calls[c].is_active
    /\ calls'[c] # calls[c]

\* the read of a handler call returns the stored active flag
CallReadsFlag ==
    \A c \in Calls : (calls[c].kind = "none" /\ calls'[c].kind # "none")
        => (calls'[c].found => calls'[c].is_active = jobs[calls'[c].job].is_active)

\* C11: a reset call that has read its job stored active ends with the conflict
\* answer and changes neither the store (cursor, forward records) nor the
\* registry nor a task; the cursor of a job stored active is never written by a
\* reset.
C11_ResetOnActiveRejected ==
    [][/\ CallReadsFlag
       /\ \A c \in Calls : ActiveCallSteps(c, "reset")
              => /\ ev'.kind = "reset_reject" /\ ev'.a = 1
                 /\ calls'[c] = NoCall
                 /\ UNCHANGED <<storeVars, registryVars, runner>>
       /\ ev'.kind = "reset_cursor" => ~jobs[ev'.job].is_active]_vars

\* C11 witness: a reset has just been rejected on an active job that has a cursor
\* past start - 1 and a forward record.
C11_Witness ==
    /\ ev.kind = "reset_reject" /\ ev.a = 1
    /\ jobs[ev.job].is_active
    /\ jobs[ev.job].last_forwarded_id > cfg[ev.job].start_post_id - 1
    /\ RecordsOf(ev.job) # {}

\* C12: a delete call that has read its job stored active is rejected and
\* changes nothing in the store.
C12_DeleteOnActiveRejected ==
    [][\A c \in Calls : ActiveCallSteps(c, "delete")
           => /\ ev'.kind = "delete_reject"
              /\ UNCHANGED storeVars]_vars

\* C13: the store holds no forward record of a job whose document is deleted.
C13_DeletedStaysDeleted ==
    \A j \in Jobs : ~jobs[j].exists => RecordsOf(j) = {}

FloodKinds == {"fetch_flood", "send_flood", "delete_flood"}

\* C14: after a FloodWait of T seconds on a window fetch, a send or a bulk delete
\* the task has slept T and is about to repeat the same call (the same window,
\* the same message, the same delete), the stored cursor being the one of the
\* last commit.
C14_RateLimitRetried ==
    /\ ev.kind \in FloodKinds => ev.t \in WaitSeconds
    /\ ev.kind = "fetch_flood"
           => /\ runner[ev.task].pc = "scan"
              /\ Window(ev.task) = [lo |-> ev.a, hi |-> ev.b]
    /\ ev.kind = "send_flood"
           => /\ runner[ev.task].pc = "forward"
              /\ runner[ev.task].idx <= Len(runner[ev.task].messages_to_forward)
              /\ runner[ev.task].messages_to_forward[runner[ev.task].idx] = ev.a
    /\ ev.kind = "delete_flood"
           => /\ runner[ev.task].pc = "cleanup"
              /\ runner[ev.task].old_messages # {}

\* C15: the step a task takes right after a FloodWait on a send is not the send
\* of a following message of the batch.
C15_FloodAbortsBatch ==
    [][(ev.kind = "send_flood" /\ ev'.task = ev.task) => ev'.kind \notin SendKinds \cup {"send_flood"}]_vars

\* C16: a task returns only when its job is missing from the store or stored
\* inactive (nobody stops or deletes a job here, so no task returns).
C16_NoExitWhileActive ==
    ev.kind = "exit" => ~(jobs[ev.job].exists /\ jobs[ev.job].is_active)

\* the step is one of task r's cycle, r being a task of job j
CycleStepOf(r, j) ==
    /\ runner[r].job = j
    /\ runner'[r] # runner[r] \/ (ev'.task = r /\ ev' # ev /\ ev'.kind \in FloodKinds)

\* C17: a step of a cycle of job A (an answered call, a rate-limited call or a
\* failed call) leaves every other job's document (cursor, active flag), forward
\* records, registry entries, lock and tasks unchanged, and writes no forward
\* record that does not carry A's id.
C17_JobsIsolated ==
    [][\A r \in Tasks : \A j \in Jobs : CycleStepOf(r, j) =>
           /\ \A k \in Jobs \ {j} :
                  /\ jobs'[k] = jobs[k]
                  /\ RecordsOf(k)' = RecordsOf(k)
                  /\ active_jobs'[k] = active_jobs[k]
                  /\ job_locks'[k] = job_locks[k]
                  /\ job_tasks'[k] = job_tasks[k]
           /\ \A q \in Tasks \ {r} :
                  /\ runner'[q] = runner[q]
                  /\ runner[q].job # j => \A L \in Tasks : lockHolder[L] = q <=> lockHolder'[L] = q
       ]_vars

\* C17 witness: a retention pass of one job has just purged its expired records
\* while the other job, with a cursor of its own, has expired records too.
C17_Witness ==
    /\ ev.kind = "cleanup" /\ ev.a > 0
    /\ \E k \in Jobs \ {ev.job} :
           /\ \E d \in RecordsOf(k) : d.forwarded_at < now - 1
           /\ jobs[k].last_forwarded_id > 0
           /\ \E q \in Tasks : runner[q].job = k /\ InCycle(q)

\* the reference predicate: which messages a filter kind accepts
RefAccepts(c, id) ==
    LET msg == get_messages(c, id) IN
    /\ ~msg.empty
    /\ \/ c.filter_type = "all"
       \/ c.filter_type = "media" /\ msg.media
       \/ c.filter_type = "text" /\ msg.text /\ ~msg.media

\* the ids in a batch
InBatch(batch) == {batch[i] : i \in 1..Len(batch)}

\* C18: the messages an answered fetch adds to the batch are exactly the
\* messages the reference predicate accepts among the ids the scan examined in
\* that window (from the window's first id to the last id checked).
C18_AcceptIsReference ==
    [][\A r \in Tasks :
           (ev'.kind = "fetch" /\ ev'.task = r /\ runner'[r] # runner[r]) =>
               InBatch(runner'[r].messages_to_forward) \ InBatch(runner[r].messages_to_forward)
                   = {i \in ev'.a .. runner'[r].last_checked_message_id :
                          RefAccepts(cfg[ev'.job], i)}
      ]_vars

\* C18 witness: a text-only scan has examined a photo, a gap, a text, a service
\* message and a text with media, and kept the text alone.
C18_Witness ==
    /\ ev.kind = "fetch"
    /\ cfg[ev.job].filter_type = "text"
    /\ ev.a = 1
    /\ runner[ev.task].last_checked_message_id >= 5
    /\ InBatch(runner[ev.task].messages_to_forward) = {3}

\* job j has a finite end bound and the cursor value v has reached it
AtEnd(j, v) == cfg[j].end_post_id # UNBOUNDED /\ v >= cfg[j].end_post_id

\* C19: the sleep that ends a cycle lasts 2 x interval when the end bound is
\* finite and the stored cursor, as that cycle committed it, has reached the end
\* bound, and one interval otherwise (one Runner per job here, so the stored
\* cursor at the sleep is the one the cycle committed).
C19_SleepByCommittedCursor ==
    ev.kind = "sleep" =>
        ev.a = IF AtEnd(ev.job, jobs[ev.job].last_forwarded_id)
               THEN 2 * 60 * cfg[ev.job].recurring_time
               ELSE 60 * cfg[ev.job].recurring_time

Expired(j) ==
    {d \in forwarded_messages : d.job_id = j /\ d.forwarded_at < now - cfg[j].delete_time}

\* C21: the query of a retention pass of a job removes from the store only
\* forward records of that job older than the retention time, and the bulk
\* delete removes from the target only messages whose record was removed: every
\* record still stored (newer, or of another job) keeps its message.
C21_RetentionOnlyExpired ==
    [][/\ ev'.kind = "cleanup" =>
              /\ forwarded_messages' \subseteq forwarded_messages
              /\ forwarded_messages \ forwarded_messages' \subseteq Expired(ev'.job)
              /\ target' = target
       /\ ev'.kind \in {"delete_messages", "delete_failed", "delete_flood"} =>
              /\ forwarded_messages' = forwarded_messages
              /\ target' \subseteq target
              /\ \A d \in forwarded_messages :
                     d.forwarded_message_id \in target => d.forwarded_message_id \in target'
      ]_vars

\* C21 witness: a bulk delete of j1 has removed a message from the target while a
\* newer record of j1 is still stored and its message is still in the target.
C21_Witness ==
    /\ ev.kind = "delete_messages" /\ ev.job = "j1"
    /\ target # 1..(nextDest - 1)
    /\ \E d \in forwarded_messages :
           /\ d.job_id = "j1"
           /\ d.forwarded_at >= now - cfg["j1"].delete_time
           /\ d.forwarded_message_id \in target

DeleteKinds == {"delete_messages", "delete_failed", "delete_flood"}

\* C22: after the commit a cycle runs the retention query exactly when the job's
\* retention time is positive; the query removes every expired record of the job
\* from the store and keeps their destination ids; when there are any, the next
\* step of the task is one bulk delete of exactly those ids, and whether it
\* succeeds or fails the records stay removed and the cycle ends with its sleep.
C22_RetentionBestEffort ==
    [][\A r \in Tasks :
           LET j == runner[r].job IN
           /\ (runner[r].pc = "committed" /\ runner'[r] # runner[r]) =>
                  IF cfg[j].delete_time > 0
                  THEN /\ ev'.kind = "cleanup" /\ ev'.task = r
                       /\ Expired(j)' = {}
                       /\ runner'[r].old_messages = {d.forwarded_message_id : d \in Expired(j)}
                       /\ target' = target
                  ELSE /\ ev'.kind = "sleep"
                       /\ forwarded_messages' = forwarded_messages /\ target' = target
           /\ (runner[r].pc = "cleanup" /\ runner'[r] # runner[r]) =>
                  IF runner[r].old_messages # {}
                  THEN /\ ev'.kind \in DeleteKinds /\ ev'.task = r
                       /\ runner'[r].pc = "cleaned"
                       /\ forwarded_messages' = forwarded_messages
                       /\ target' = IF ev'.kind = "delete_messages"
                                    THEN target \ runner[r].old_messages
                                    ELSE target
                  ELSE ev'.kind = "sleep" /\ target' = target
           /\ (runner[r].pc = "cleaned" /\ runner'[r] # runner[r]) =>
                  /\ ev'.kind = "sleep" /\ runner'[r].pc = "top"
                  /\ forwarded_messages' = forwarded_messages /\ target' = target
      ]_vars

\* C22 witness: the bulk delete of a retention pass has failed: the message is
\* still in the target and its record is no longer stored.
C22_Witness ==
    /\ ev.kind = "delete_failed"
    /\ runner[ev.task].old_messages # {}
    /\ runner[ev.task].old_messages \subseteq target
    /\ \A d \in forwarded_messages : d.forwarded_message_id \notin runner[ev.task].old_messages

\* the ids of a window that hold a present message the job's filter accepts
Matches(c, lo, hi) == {i \in lo..hi : RefAccepts(c, i)}

\* the source ids of the records of job j above the cursor value v
RecordedAbove(j, v) == {d.original_message_id : d \in {e \in RecordsOf(j) : e.original_message_id > v}}

\* C23: for a job with an unbounded end, an answered window that holds k <
\* batch_size matching messages is the only window of its cycle: the batch is
\* exactly those k messages, every step of the forward phase hands the next one
\* to the target, the commit writes the window's highest id (with no send failed,
\* the records above the old cursor are exactly the k messages), and the cycle
\* ends with a sleep of one interval.
C23_ShortWindowCycle ==
    [][\A r \in Tasks :
           LET j == runner[r].job
               c == cfg[j]
               batch == runner[r].messages_to_forward IN
           (j \in Jobs /\ c.end_post_id = UNBOUNDED) =>
               /\ (ev'.kind = "fetch" /\ ev'.task = r
                     /\ Cardinality(Matches(c, ev'.a, ev'.b)) < c.batch_size) =>
                      /\ batch = <<>>
                      /\ InBatch(runner'[r].messages_to_forward) = Matches(c, ev'.a, ev'.b)
                      /\ Len(runner'[r].messages_to_forward) = Cardinality(Matches(c, ev'.a, ev'.b))
                      /\ runner'[r].last_checked_message_id = ev'.b
                      /\ runner'[r].pc = "forward"
               /\ (runner[r].pc = "forward" /\ runner'[r] # runner[r]
                     /\ Len(batch) < c.batch_size) =>
                      /\ runner'[r].messages_to_forward = batch
                      /\ runner'[r].last_checked_message_id = runner[r].last_checked_message_id
                      /\ IF runner[r].idx <= Len(batch)
                         THEN /\ ev'.kind \in SendKinds /\ ev'.a = batch[runner[r].idx]
                              /\ runner'[r].idx = runner[r].idx + 1
                         ELSE /\ ev'.kind = "commit"
                              /\ jobs'[j].last_forwarded_id = runner[r].last_checked_message_id
                              /\ runner[r].forwarded_count = Len(batch) =>
                                     RecordedAbove(j, runner[r].last_forwarded_id) = InBatch(batch)
               /\ (ev'.kind = "sleep" /\ ev'.task = r) => ev'.a = 60 * c.recurring_time
      ]_vars

\* C23 witness: the cycle of an unbounded job with batch size 2 whose window
\* 1..10 held one matching message has forwarded it, committed cursor 10 and
\* sleeps one interval.
C23_Witness ==
    /\ ev.kind = "sleep" /\ ev.a = 60
    /\ cfg[ev.job].end_post_id = UNBOUNDED /\ cfg[ev.job].batch_size = 2
    /\ jobs[ev.job].last_forwarded_id = 10
    /\ {d.original_message_id : d \in RecordsOf(ev.job)} = {3}

\* the last id the for loop examines in the window lo..hi when the batch lacks
\* `need` messages: the need-th match, or the window's last id
LastExamined(c, lo, hi, need) ==
    LET m == Matches(c, lo, hi) IN
    IF Cardinality(m) >= need
    THEN CHOOSE i \in m : Cardinality({k \in m : k <= i}) = need
    ELSE hi

\* C24: a cycle's examined marker starts at the cursor the cycle read, an answered fetch
\* moves it to the last id examined in the window (gap, non-match or match) and
\* no other step of the cycle moves it; a task whose forward loop is over
\* commits that marker, whatever its sends did, and no later step of the cycle
\* writes the job document.
C24_CommitHighestExamined ==
    [][\A r \in Tasks :
           LET j == runner[r].job
               c == cfg[j]
               batch == runner[r].messages_to_forward IN
           j \in Jobs =>
               /\ (ev'.kind = "begin" /\ ev'.task = r) =>
                      runner'[r].last_checked_message_id = runner[r].last_forwarded_id
               /\ (ev'.kind = "fetch" /\ ev'.task = r) =>
                      runner'[r].last_checked_message_id =
                          LastExamined(c, ev'.a, ev'.b, c.batch_size - Len(batch))
               /\ (InCycle(r) /\ runner'[r].pc # "top" /\ ~(ev'.kind = "fetch" /\ ev'.task = r)) =>
                      runner'[r].last_checked_message_id = runner[r].last_checked_message_id
               /\ (runner[r].pc = "forward" /\ runner[r].idx > Len(batch)
                     /\ runner'[r] # runner[r]) =>
                      /\ ev'.kind = "commit" /\ ev'.task = r
                      /\ jobs'[j].last_forwarded_id = runner[r].last_checked_message_id
                      /\ runner'[r].pc = "committed"
               /\ (ev'.kind = "commit" /\ ev'.task = r) =>
                      runner[r].pc = "forward" /\ runner[r].idx > Len(batch)
               /\ (runner[r].pc \in {"committed", "cleanup", "cleaned"}
                     /\ runner'[r] # runner[r]) =>
                      jobs' = jobs
      ]_vars

\* C24 witness: a cycle whose only send failed has committed the last id it
\* examined, an id above the message of its batch.
C24_Witness ==
    /\ ev.kind = "commit"
    /\ runner[ev.task].messages_to_forward # <<>>
    /\ runner[ev.task].forwarded_count = 0
    /\ jobs[ev.job].last_forwarded_id = ev.a
    /\ \A i \in InBatch(runner[ev.task].messages_to_forward) : i < ev.a

\* the first id of the window a scanning task must request next: max(cursor + 1,
\* start) while the cycle has examined nothing, else the id after the last one
\* examined
NextToExamine(r) ==
    IF runner[r].last_checked_message_id = runner[r].last_forwarded_id
    THEN Max(runner[r].last_forwarded_id + 1, cfg[runner[r].job].start_post_id)
    ELSE runner[r].last_checked_message_id + 1

\* C25: every window a scan requests begins at max(cursor + 1, start) when the
\* cycle has examined nothing yet and right after the last id examined
\* otherwise, and spans min(5 x batch_size, 100) ids, cut so that it ends at a
\* finite end bound.
C25_WindowsContiguous ==
    [][\A r \in Tasks :
           LET c == cfg[runner[r].job] IN
           (ev'.kind \in FetchKinds /\ ev'.task = r) =>
               /\ ev'.a = NextToExamine(r)
               /\ ev'.b = IF c.end_post_id # UNBOUNDED
                          THEN Min(ev'.a + Min(5 * c.batch_size, 100) - 1, c.end_post_id)
                          ELSE ev'.a + Min(5 * c.batch_size, 100) - 1
      ]_vars

\* C26: a scan of an unbounded job stops after the first answered window that
\* left its batch short; a scan of a job with a finite end requests another
\* window as long as its batch is short and some id up to the end bound is
\* unexamined, and when it stops with a short batch every id from its first id
\* to the end bound has been returned by a fetch.
C26_EarlyExit ==
    [][\A r \in Tasks :
           LET j == runner[r].job
               c == cfg[j]
               first == Max(runner[r].last_forwarded_id + 1, c.start_post_id) IN
           (j \in Jobs /\ runner[r].pc = "scan" /\ runner'[r] # runner[r]) =>
               /\ (c.end_post_id = UNBOUNDED /\ ev'.kind = "fetch"
                     /\ Len(runner'[r].messages_to_forward) < c.batch_size) =>
                      runner'[r].pc = "forward"
               /\ (c.end_post_id # UNBOUNDED
                     /\ Len(runner[r].messages_to_forward) < c.batch_size
                     /\ runner[r].last_checked_message_id < c.end_post_id) =>
                      ev'.kind \in FetchKinds
               /\ (c.end_post_id # UNBOUNDED /\ runner'[r].pc = "forward"
                     /\ Len(runner'[r].messages_to_forward) < c.batch_size) =>
                      \A i \in first .. c.end_post_id : i \in fetched'[j]
      ]_vars

\* C27: a task that has examined a window in its cycle requests a further
\* window, and a task in its forward phase sends a message, only while the job's
\* enabled flag is set: after a stop has cleared the flag the scan in progress
\* requests nothing more and the cycle forwards nothing more.
C27_StopEndsScan ==
    [][\A r \in Tasks :
           LET j == runner[r].job IN
           (ev'.task = r /\ j \in Jobs
              /\ \/ ev'.kind \in FetchKinds
                      /\ runner[r].last_checked_message_id # runner[r].last_forwarded_id
                 \/ ev'.kind \in SendKinds) =>
               enabled_flag(j)
      ]_vars

\* C28: a window fetch that fails with an exception other than FloodWait ends the
\* cycle: the scan position does not advance, the job document is not written
\* and the task is back at the top of its loop, to retry the cycle from the
\* stored cursor after the cooldown.
C28_FailureRestartsCycle ==
    [][\A r \in Tasks :
           (ev'.kind = "fetch_error" /\ ev'.task = r) =>
               /\ runner'[r].current_message_id <= runner[r].current_message_id
               /\ jobs' = jobs
               /\ runner'[r].pc = "top"
      ]_vars

\* C29: every step of the forward loop hands the next message of the batch to
\* the target and moves on to the following one.  When the send succeeds the
\* target holds one new message and the store one new forward record, with the
\* job's id, the source id and the new message's id; when it fails (not a rate
\* limit) the target and the forward records are unchanged.
C29_SendFailureSkipped ==
    [][\A r \in Tasks :
           LET j == runner[r].job
               batch == runner[r].messages_to_forward
               idx == runner[r].idx IN
           (runner[r].pc = "forward" /\ idx <= Len(batch) /\ runner'[r] # runner[r]) =>
               /\ ev'.kind \in SendKinds /\ ev'.task = r /\ ev'.a = batch[idx]
               /\ runner'[r].pc = "forward" /\ runner'[r].idx = idx + 1
               /\ runner'[r].messages_to_forward = batch
               /\ ev'.kind = "send" =>
                      \E d \in forwarded_messages' :
                          /\ d \notin forwarded_messages
                          /\ forwarded_messages' = forwarded_messages \cup {d}
                          /\ d.job_id = j /\ d.original_message_id = batch[idx]
                          /\ d.forwarded_message_id \notin target
                          /\ target' = target \cup {d.forwarded_message_id}
               /\ ev'.kind = "send_fail" =>
                      forwarded_messages' = forwarded_messages /\ target' = target
      ]_vars

\* C29 witness: the first send of a batch of two failed and the second one
\* succeeded: the store holds a record of the second message and none of the first.
C29_Witness ==
    /\ ev.kind = "send"
    /\ Len(runner[ev.task].messages_to_forward) = 2
    /\ runner[ev.task].idx = 3
    /\ runner[ev.task].forwarded_count = 1
    /\ {d.original_message_id : d \in RecordsOf(ev.job)} = {runner[ev.task].messages_to_forward[2]}

\* C30: a task at the top of a cycle whose job document is missing does not
\* begin the cycle: it returns at the while condition, or it reads None and its
\* next step is the break; in both cases it forwards nothing, writes nothing to
\* the store and leaves the job without entry in active_jobs and job_locks.
C30_GoneJobExits ==
    [][\A r \in Tasks :
           LET j == runner[r].job IN
           (j \in Jobs /\ runner'[r] # runner[r]) =>
               /\ (runner[r].pc = "top" /\ ~jobs[j].exists) =>
                      \/ runner'[r].pc = "done"
                      \/ runner'[r].pc = "got_job" /\ ~runner'[r].found
               /\ (runner[r].pc = "got_job" /\ ~runner[r].found) =>
                      runner'[r].pc = "done"
               /\ runner'[r].pc = "done" =>
                      /\ ev'.kind = "exit" /\ ev'.task = r
                      /\ runner[r].pc \in {"top", "got_job"}
                      /\ active_jobs'[j] = "absent" /\ job_locks'[j] = 0
                      /\ \A L \in Tasks : lockHolder'[L] # r
                      /\ UNCHANGED <<jobs, forwarded_messages, target>>
      ]_vars

\* C30 witness: a Runner that forwarded a message, and whose job document was
\* then deleted, has read None at the top of its next cycle and returned; the job
\* has no registry entries.
C30_Witness ==
    /\ ev.kind = "exit" /\ ev.a = 1
    /\ ~jobs[ev.job].exists
    /\ runner[ev.task].pc = "done"
    /\ active_jobs[ev.job] = "absent" /\ job_locks[ev.job] = 0
    /\ \E d \in forwarded_messages : d.job_id = ev.job

\* C31: a job whose end of range was given as a link to a message e is bounded:
\* no window it requests reaches above e, and a cycle that read a cursor at or
\* above e ends with a sleep of 2 x interval.
C31_EndLinkIsBounded ==
    /\ (ev.kind \in FetchKinds /\ cfg[ev.job].end_is_link)
           => ev.b <= cfg[ev.job].end_post_id
    /\ (ev.kind = "sleep" /\ cfg[ev.job].end_is_link /\ ev.b >= cfg[ev.job].end_post_id)
           => ev.a = 2 * 60 * cfg[ev.job].recurring_time

\* C32: every job has at most one run_job task that has not returned.
C32_OneRunnerPerJob ==
    \A j \in Jobs :
        Cardinality({r \in Tasks : runner[r].job = j /\ runner[r].pc \notin {"none", "done"}}) <= 1

\* C33: whenever a job is stored active and no start call on it is in progress,
\* a run_job task of the job has not returned.
C33_ActiveJobHasRunner ==
    \A j \in Jobs :
        (/\ jobs[j].exists /\ jobs[j].is_active
         /\ \A c \in Calls : ~(calls[c].kind = "start" /\ calls[c].job = j))
            => \E r \in Tasks : runner[r].job = j /\ runner[r].pc \notin {"none", "done"}

\* C34: every scan ends: a task that is in the scan loop of a cycle eventually
\* leaves it, also when its fetches fail.
C34_ScanTerminates ==
    \A r \in Tasks : (runner[r].pc = "scan") ~> (runner[r].pc # "scan")

\* C35: in the state a completed reset leaves, and after the step that follows
\* it unless that step is a start writing the job active, the job's cursor is
\* start - 1 and the job has no forward record: no task still in a cycle writes
\* the cursor or adds a record.
C35_ResetStays ==
    /\ [](ev.kind = "reset_done"
            => /\ jobs[ev.job].last_forwarded_id = cfg[ev.job].start_post_id - 1
               /\ RecordsOf(ev.job) = {})
    /\ [][(ev.kind = "reset_done" /\ ~jobs'[ev.job].is_active)
            => /\ jobs'[ev.job].last_forwarded_id = cfg[ev.job].start_post_id - 1
               /\ {m \in forwarded_messages' : m.job_id = ev.job} = {}]_vars

\* C36: a task holds a lock only inside a cycle: a task that is asleep at the
\* top of its loop (after the end of a cycle, after an exception raised in the
\* cycle), that has returned or that waits for a lock holds none, the lock a
\* task holds is the one it took at the top, and a task that waits for a lock
\* eventually gets it.
C36_MutexReleased ==
    /\ [](\A r \in Tasks : \A L \in Tasks :
            lockHolder[L] = r
                => /\ runner[r].lock = L
                   /\ runner[r].pc \notin {"none", "top", "wait_lock", "done"})
    /\ [](ev.kind \in {"sleep", "cooldown", "exit"}
            => \A L \in Tasks : lockHolder[L] # ev.task)
    /\ \A r \in Tasks : (runner[r].pc = "wait_lock") ~> (runner[r].pc = "got_job")

\* C37: the stored cursor of a job whose end of range was given as a link to a
\* message e is never above e.
C37_CursorWithinEnd ==
    \A j \in Jobs :
        (jobs[j].exists /\ cfg[j].end_is_link)
            => jobs[j].last_forwarded_id <= cfg[j].end_post_id

\* C38: AutoposterBot.stop leaves no enabled flag set and no run_job task that
\* has not returned, and writes nothing to the store; the end of the process
\* writes nothing to the store either, and the resume loop of the next process
\* creates one Runner for each job stored active and none for another job.
C38_ShutdownKeepsStore ==
    /\ [][ev'.kind = "shutdown"
            => /\ UNCHANGED storeVars
               /\ \A j \in Jobs : active_jobs'[j] # "True"
               /\ \A r \in Tasks : runner'[r].pc \in {"none", "done"}]_vars
    /\ [][(boot = "stopped" /\ ev'.kind = "crash") => UNCHANGED storeVars]_vars
    /\ [][boot = "starting" => ResumeCreatesRunners]_vars

\* C39: a job that has an entry in active_jobs has an entry in job_locks, and a
\* task that went past the while condition has found a lock there: the one it
\* holds or waits for.
C39_FlagHasLock ==
    /\ \A j \in Jobs : active_jobs[j] # "absent" => job_locks[j] \in Tasks
    /\ \A r \in Tasks :
           runner[r].pc \notin {"none", "top", "done"} => runner[r].lock \in Tasks

\* C39 witness: after a Runner of the job has returned and deleted the entries, a
\* later start has installed them again and the new task, past the while
\* condition, has taken the lock now in job_locks.
C39_Witness ==
    /\ ev.kind = "get_job"
    /\ runner[ev.task].pc = "got_job"
    /\ active_jobs[ev.job] = "True"
    /\ runner[ev.task].lock = job_locks[ev.job]
    /\ lockHolder[job_locks[ev.job]] = ev.task
    /\ \E q \in Tasks \ {ev.task} : runner[q].job = ev.job /\ runner[q].pc = "done"

====
